---- MODULE Spec2Model ----
(***************************************************************************)
(* Model of the chat-completions proxy (src/server.js, lines 422-1347, and *)
(* the structured Vendor B variant in src/unnamed/part_000, lines 1-965),  *)
(* with the transcoders of the single-vendor release (src/server.js, lines *)
(* 1-421).                                                                 *)
(*                                                                         *)
(* Strings are sequences of characters; a "character" is an atom (a TLA+   *)
(* string) that stands for one or several bytes of the real text.  The     *)
(* JSON text of an upstream event is one atom, decoded by JSONParse.       *)
(***************************************************************************)
EXTENDS Integers, Sequences, FiniteSets, TLC

\* ------------------------------------------------------------------ bounds
\* Number of SSE lines the upstream sends on one streamed response.
MaxLines == 4

\* Number of requests the server accepts, one after the other.
MaxRequests == 3

\* Number of SSE lines each upstream sends while two requests stream at once.
MaxConcurrentLines == 3

\* ------------------------------------------------------- sequence helpers
StartsWith(s, p) == Len(s) >= Len(p) /\ SubSeq(s, 1, Len(p)) = p

Drop(s, n) == SubSeq(s, n + 1, Len(s))

RECURSIVE Concat(_)
Concat(ss) == IF ss = <<>> THEN <<>> ELSE Head(ss) \o Concat(Tail(ss))

\* String.prototype.split("\n"): always at least one (possibly empty) piece.
RECURSIVE SplitNL(_, _)
SplitNL(s, cur) ==
    IF s = <<>> THEN <<cur>>
    ELSE IF Head(s) = "\n" THEN <<cur>> \o SplitNL(Tail(s), <<>>)
    ELSE SplitNL(Tail(s), Append(cur, Head(s)))

Whitespace == {" ", "\r"}

RECURSIVE TrimLeft(_)
TrimLeft(s) == IF s # <<>> /\ Head(s) \in Whitespace THEN TrimLeft(Tail(s)) ELSE s

RECURSIVE TrimRight(_)
TrimRight(s) ==
    IF s # <<>> /\ s[Len(s)] \in Whitespace THEN TrimRight(SubSeq(s, 1, Len(s) - 1)) ELSE s

\* String.prototype.trim()
Trim(s) == TrimRight(TrimLeft(s))

\* ---------------------------------------------------------- wire encoding
\* "data: " is two atoms so that a network chunk can end inside the prefix.
DataPrefix == <<"da", "ta: ">>

DoneLiteral == <<"[DONE]">>

\* Bytes of one two-byte UTF-8 character, the character itself, and U+FFFD.
LeadByte == "0xC3"
ContByte == "0xA9"
TwoByteChar == "e-acute"
ReplacementChar == "U+FFFD"

\* Buffer.prototype.toString(): UTF-8 decoding of one chunk on its own.  A
\* multi-byte character cut by the chunk boundary decodes to U+FFFD on each side.
RECURSIVE Utf8Decode(_)
Utf8Decode(bytes) ==
    IF bytes = <<>> THEN <<>>
    ELSE IF Head(bytes) = LeadByte
         THEN IF Len(bytes) >= 2 /\ bytes[2] = ContByte
              THEN <<TwoByteChar>> \o Utf8Decode(Drop(bytes, 2))
              ELSE <<ReplacementChar>> \o Utf8Decode(Tail(bytes))
    ELSE IF Head(bytes) = ContByte
         THEN <<ReplacementChar>> \o Utf8Decode(Tail(bytes))
    ELSE <<Head(bytes)>> \o Utf8Decode(Tail(bytes))

\* ------------------------------------------------------------ JSON values
\* A JSON object is a sequence of members [key, value]; keys and scalar values
\* are atoms.  Null stands for null/undefined.
Null == "null"
EmptyObject == <<>>
ObjectA1 == <<[key |-> "a", value |-> "1"]>>
ObjectA1B2 == <<[key |-> "a", value |-> "1"], [key |-> "b", value |-> "2"]>>

RECURSIVE StringifyMembers(_, _)
StringifyMembers(ms, sep) ==
    IF ms = <<>> THEN <<>>
    ELSE <<"\"", Head(ms).key, "\"", ":">> \o sep \o <<Head(ms).value>>
         \o (IF Len(ms) > 1 THEN <<",">> \o sep ELSE <<>>)
         \o StringifyMembers(Tail(ms), sep)

\* JSON.stringify(value): the compact text, no whitespace.
JSONStringify(obj) == <<"{">> \o StringifyMembers(obj, <<>>) \o <<"}">>

\* The same value written with a space after ":" and ",", as the vendor's
\* streaming serializer writes it.
SpacedJson(obj) == <<"{">> \o StringifyMembers(obj, <<" ">>) \o <<"}">>

\* ------------------------------------------------------- upstream events
\* Fragments of tool-call argument JSON, as the vendor streams them.
Frag1 == <<"{", "\"", "a", "\"", ":">>
Frag2 == <<"1", "}">>

ToolUseX == [type |-> "tool_use", id |-> "X", name |-> "f"]
ToolUseY == [type |-> "tool_use", id |-> "Y", name |-> "g"]
TextBlock == [type |-> "text"]

\* Vendor A events (parsed JSON), keyed by the atom that is their JSON text.
JsonTableA ==
    [a \in {"A:start0X", "A:start1Y", "A:start0T", "A:start1T", "A:text",
            "A:stop0", "A:stop1", "A:message_stop", "A:ping"} |->
       CASE a = "A:start0X" -> [type |-> "content_block_start", index |-> 0, content_block |-> ToolUseX]
         [] a = "A:start1Y" -> [type |-> "content_block_start", index |-> 1, content_block |-> ToolUseY]
         [] a = "A:start0T" -> [type |-> "content_block_start", index |-> 0, content_block |-> TextBlock]
         [] a = "A:start1T" -> [type |-> "content_block_start", index |-> 1, content_block |-> TextBlock]
         [] a = "A:text" -> [type |-> "content_block_delta", index |-> 0,
                             delta |-> [type |-> "text_delta", text |-> <<"h", "i">>]]
         [] a = "A:stop0" -> [type |-> "content_block_stop", index |-> 0]
         [] a = "A:stop1" -> [type |-> "content_block_stop", index |-> 1]
         [] a = "A:message_stop" -> [type |-> "message_stop"]
         [] a = "A:ping" -> [type |-> "ping"]]

FunctionCallX == [type |-> "function_call", call_id |-> "X", name |-> "f"]
FunctionCallY == [type |-> "function_call", call_id |-> "Y", name |-> "g"]
MessageItem == [type |-> "message"]

\* Vendor B (Responses API) events.
JsonTableB ==
    [a \in {"B:added0X", "B:added1Y", "B:added0M", "B:text", "B:args0p1",
            "B:args0p2", "B:done0X", "B:done1Y", "B:done0M", "B:completed"} |->
       CASE a = "B:added0X" -> [type |-> "response.output_item.added", output_index |-> 0, item |-> FunctionCallX]
         [] a = "B:added1Y" -> [type |-> "response.output_item.added", output_index |-> 1, item |-> FunctionCallY]
         [] a = "B:added0M" -> [type |-> "response.output_item.added", output_index |-> 0, item |-> MessageItem]
         [] a = "B:text" -> [type |-> "response.output_text.delta", output_index |-> 0, delta |-> <<"h", "i">>]
         [] a = "B:args0p1" -> [type |-> "response.function_call_arguments.delta", output_index |-> 0, delta |-> Frag1]
         [] a = "B:args0p2" -> [type |-> "response.function_call_arguments.delta", output_index |-> 0, delta |-> Frag2]
         [] a = "B:done0X" -> [type |-> "response.output_item.done", output_index |-> 0, item |-> FunctionCallX]
         [] a = "B:done1Y" -> [type |-> "response.output_item.done", output_index |-> 1, item |-> FunctionCallY]
         [] a = "B:done0M" -> [type |-> "response.output_item.done", output_index |-> 0, item |-> MessageItem]
         [] a = "B:completed" -> [type |-> "response.completed"]]

ParseError == [type |-> "SyntaxError"]

\* JSON text of the two Vendor A delta events, spelled out character by
\* character between an opening and a closing atom:
\*   {"type":"content_block_delta","index":i,"delta":{"type":"text_delta","text":"..."}}
\*   {"type":"content_block_delta","index":i,"delta":{"type":"input_json_delta","partial_json":"..."}}
TextOpen == "{text_delta:\""
JsonOpen(i) == IF i = 0 THEN "{input_json_delta,0:\"" ELSE "{input_json_delta,1:\""
StringClose == "\"}"
TextChars == {"h", "i", TwoByteChar, ReplacementChar}
JsonChars == {"{", "}", "\"", ":", ",", " ", "a", "b", "1", "2"}

TextDeltaJson(text) == <<TextOpen>> \o text \o <<StringClose>>
InputJsonDeltaJson(i, fragment) == <<JsonOpen(i)>> \o fragment \o <<StringClose>>

Inner(data) == SubSeq(data, 2, Len(data) - 1)

\* JSON.parse of the payload of a data line.
JSONParse(data) ==
    IF Len(data) = 1 /\ data[1] \in DOMAIN JsonTableA THEN JsonTableA[data[1]]
    ELSE IF Len(data) = 1 /\ data[1] \in DOMAIN JsonTableB THEN JsonTableB[data[1]]
    ELSE IF Len(data) >= 2 /\ data[Len(data)] = StringClose
         THEN IF data[1] = TextOpen /\ \A k \in 2..(Len(data) - 1) : data[k] \in TextChars
              THEN [type |-> "content_block_delta", index |-> 0,
                    delta |-> [type |-> "text_delta", text |-> Inner(data)]]
              ELSE IF /\ data[1] \in {JsonOpen(0), JsonOpen(1)}
                      /\ \A k \in 2..(Len(data) - 1) : data[k] \in JsonChars
              THEN [type |-> "content_block_delta", index |-> (IF data[1] = JsonOpen(0) THEN 0 ELSE 1),
                    delta |-> [type |-> "input_json_delta", partial_json |-> Inner(data)]]
              ELSE ParseError
    ELSE ParseError

\* ------------------------------------------------- streaming re-chunkers
\* Per-request state of handleClaudeStreaming / handleGPTStreaming and the
\* state of the two streams it connects.
VARIABLES
    vendor,                 \* "A" (Claude-style) or "B" (GPT-style, structured mode)
    upstream,               \* response.data: "open", "ended" or "errored"
    buffer,                 \* let buffer = ""
    contentBlocks,          \* const contentBlocks = {}   (Vendor A only)
    currentToolCallIndex,   \* let currentToolCallIndex = 0
    written,                \* what res.write() has sent to the caller, in order
    resEnded,               \* res.end() was called
    resJson,                \* body of a res.status(..).json(..) answer, or NoJson
    sent,                   \* history: the lines the upstream has sent, in order
    nLines                  \* history: number of lines the upstream has sent

rcVars == <<vendor, upstream, buffer, contentBlocks, currentToolCallIndex,
            written, resEnded, resJson, sent, nLines>>

\* The Vendor A upstream while it streams one response (environment).
VARIABLES
    response,               \* the response being streamed (what a non-streaming call returns)
    blockNo,                \* 1-based number of the content block being streamed
    phase,                  \* "idle", "start", "delta" or "done"
    pending                 \* text of the current block not yet sent

upVars == <<response, blockNo, phase, pending>>

\* The bytes of an upstream body and how far the network has delivered them.
VARIABLES
    wire,                   \* the whole byte sequence the upstream sends
    offset                  \* number of bytes delivered to the "data" handler so far

netVars == <<wire, offset>>

\* One HTTP request on its way through the Express application.
VARIABLES
    env,                    \* process.env, as far as it is read after start-up
    CONFIG,                 \* const CONFIG = {...}: the environment-sourced settings
    variant,                \* which handleGPTRequest is deployed: "structured" or "passthrough"
    req,                    \* the request: method, path, headers.authorization, body
    pc,                     \* where the request is in the middleware chain
    upstreamCalls,          \* the axios.post calls made for the request, in order
    transformed             \* history: what the request transcoder returned or threw

httpVars == <<env, CONFIG, variant, req, pc, upstreamCalls, transformed>>

\* The server across requests, and a handler while it reads the body of an
\* upstream error answer.
VARIABLES
    routed,                 \* history: every call of isGPTModel, its argument and its outcome
    arrivals,               \* number of requests the server has accepted so far
    errorBuffer,            \* let errorBuffer = ""
    errorMessage,           \* history: errorMessage of the answer built from a drained body
    callerClosedAt,         \* history: nLines when the caller's connection closed, -1 while it is open
    peer                    \* a second request streaming at the same time: its re-chunker state

srvVars == <<routed, arrivals, errorBuffer, errorMessage, callerClosedAt, peer>>

NoBlock == [type |-> "undefined"]
NoJson == [status |-> 0, type |-> "none"]
BlockIndex == {0, 1}

\* The chunks written to the caller: choices[0] of a chat.completion.chunk,
\* flattened (delta.tool_calls[0] of a tool chunk, delta.content of a text
\* chunk).  id/created/model of the envelope are left out.  "origin" is
\* bookkeeping, not part of the chunk: the upstream block/item the chunk is for.
ToolHeaderChunk(idx, id, name, origin) ==
    [kind |-> "tool_calls", index |-> idx, id |-> id, name |-> name,
     arguments |-> <<>>, finish_reason |-> "null", origin |-> origin]

\* An argument chunk filed under the index after the current one.
ToolArgsChunkNextIndex(idx, fragment, origin) ==
    [kind |-> "tool_calls", index |-> idx + 1, arguments |-> fragment,
     finish_reason |-> "null", origin |-> origin]

ToolArgsChunk(idx, fragment, origin) ==
    [kind |-> "tool_calls", index |-> idx, arguments |-> fragment,
     finish_reason |-> "null", origin |-> origin]

TextChunk(text) == [kind |-> "content", content |-> text, finish_reason |-> "null"]

StopChunk(reason) == [kind |-> "empty", finish_reason |-> reason]

DoneMarker == [kind |-> "[DONE]"]

\* finish_reason: currentToolCallIndex > 0 ? "tool_calls" : "stop"
FinishReason(counter) == IF counter > 0 THEN "tool_calls" ELSE "stop"

\* The re-chunker state the data handler reads and writes.
RcState(b, cb, c, w) ==
    [buffer |-> b, contentBlocks |-> cb, currentToolCallIndex |-> c, written |-> w]

\* A response that puts each new chunk ahead of the ones already written.
WriteAhead(st, chunk) == [st EXCEPT !.written = <<chunk>> \o @]

\* res.write(...): the chunk goes out after everything written before it.
Write(st, chunk) == [st EXCEPT !.written = Append(@, chunk)]

\* Body of the try block of handleClaudeStreaming for one parsed event.
HandleEventA(st, event) ==
    IF event.type = "content_block_start" THEN
        LET st1 == [st EXCEPT !.contentBlocks[event.index] = event.content_block] IN
        IF event.content_block.type = "tool_use"
        THEN Write(st1, ToolHeaderChunk(st.currentToolCallIndex, event.content_block.id,
                                        event.content_block.name, event.index))
        ELSE st1
    ELSE IF event.type = "content_block_delta" THEN
        IF event.delta.type = "text_delta" THEN Write(st, TextChunk(event.delta.text))
        ELSE IF event.delta.type = "input_json_delta"
        THEN Write(st, ToolArgsChunk(st.currentToolCallIndex, event.delta.partial_json, event.index))
        ELSE st
    ELSE IF event.type = "content_block_stop" THEN
        IF st.contentBlocks[event.index].type = "tool_use"
        THEN [st EXCEPT !.currentToolCallIndex = @ + 1]
        ELSE st
    ELSE IF event.type = "message_stop" THEN
        Write(Write(st, StopChunk(FinishReason(st.currentToolCallIndex))), DoneMarker)
    ELSE st

\* Body of the try block of handleGPTStreaming for one parsed event.
HandleEventB(st, event) ==
    IF event.type = "response.output_item.added" THEN
        IF event.item.type = "function_call"
        THEN Write(st, ToolHeaderChunk(st.currentToolCallIndex, event.item.call_id,
                                       event.item.name, event.output_index))
        ELSE st
    ELSE IF event.type \in {"response.output_text.delta", "response.text.delta"} THEN
        Write(st, TextChunk(event.delta))
    ELSE IF event.type = "response.function_call_arguments.delta" THEN
        Write(st, ToolArgsChunk(st.currentToolCallIndex, event.delta, event.output_index))
    ELSE IF event.type = "response.output_item.done" THEN
        IF event.item.type = "function_call"
        THEN [st EXCEPT !.currentToolCallIndex = @ + 1]
        ELSE st
    ELSE IF event.type \in {"response.done", "response.completed"} THEN
        Write(Write(st, StopChunk(FinishReason(st.currentToolCallIndex))), DoneMarker)
    ELSE IF /\ event.type = "content_block_delta"
            /\ "text" \in DOMAIN event.delta
            /\ event.delta.text # <<>> THEN
        Write(st, TextChunk(event.delta.text))
    ELSE st

\* A handler that gives up on a line it cannot parse: it ends the stream for the client.
CatchParseErrorEndsStream(st) == Write(st, DoneMarker)

\* catch (e) { console.error(...) }: the line is logged and the loop goes on.
CatchParseError(st) == st

\* One iteration of "for (const line of lines)".
ProcessLine(v, st, line) ==
    IF ~StartsWith(line, DataPrefix) THEN st
    ELSE LET data == Trim(Drop(line, Len(DataPrefix))) IN
         IF data = DoneLiteral THEN Write(st, DoneMarker)
         ELSE LET event == JSONParse(data) IN
              IF event = ParseError THEN CatchParseError(st)
              ELSE IF v = "A" THEN HandleEventA(st, event)
              ELSE HandleEventB(st, event)

RECURSIVE ProcessLines(_, _, _)
ProcessLines(v, st, lines) ==
    IF lines = <<>> THEN st
    ELSE ProcessLines(v, ProcessLine(v, st, Head(lines)), Tail(lines))

\* response.data.on("data", chunk => ...): decode, split, keep the trailing
\* piece in the buffer, process the complete lines in order.
HandleData(v, st, chunk) ==
    LET text == st.buffer \o Utf8Decode(chunk)
        pieces == SplitNL(text, <<>>)
        lines == SubSeq(pieces, 1, Len(pieces) - 1)
    IN ProcessLines(v, [st EXCEPT !.buffer = pieces[Len(pieces)]], lines)

\* ---- the upstream of a streamed response (environment)
DataLine(atom) == DataPrefix \o <<atom>>
DoneLine == DataPrefix \o DoneLiteral
BadJsonLine == DataPrefix \o <<"{\"type\":">>
EventNameLine == <<"event: x">>

\* Lines a Vendor A / Vendor B upstream may send, in any order.
LinesA == {DataLine(a) : a \in DOMAIN JsonTableA \ {"A:start1T"}}
              \cup {DataPrefix \o InputJsonDeltaJson(0, Frag1), DataPrefix \o InputJsonDeltaJson(0, Frag2),
                    DoneLine, BadJsonLine}
LinesB == {DataLine(a) : a \in DOMAIN JsonTableB} \cup {DataLine("A:text"), DoneLine, BadJsonLine}

IsDataLine(line) == StartsWith(line, DataPrefix)
Payload(line) == Trim(Drop(line, Len(DataPrefix)))
IsBadJson(line) ==
    IsDataLine(line) /\ Payload(line) # DoneLiteral /\ JSONParse(Payload(line)) = ParseError

RECURSIVE WithoutBadJson(_)
WithoutBadJson(ls) ==
    IF ls = <<>> THEN <<>>
    ELSE IF IsBadJson(Head(ls)) THEN WithoutBadJson(Tail(ls))
    ELSE <<Head(ls)>> \o WithoutBadJson(Tail(ls))

\* The bytes of a sequence of lines, each ended by a newline.
RECURSIVE Wire(_)
Wire(ls) == IF ls = <<>> THEN <<>> ELSE Head(ls) \o <<"\n">> \o Wire(Tail(ls))

InitialRc == RcState(<<>>, [i \in BlockIndex |-> NoBlock], 0, <<>>)

\* handleClaudeStreaming / handleGPTStreaming up to the registration of the handlers.
InitStreaming ==
    /\ vendor \in {"A", "B"}
    /\ upstream = "open"
    /\ buffer = InitialRc.buffer
    /\ contentBlocks = InitialRc.contentBlocks
    /\ currentToolCallIndex = InitialRc.currentToolCallIndex
    /\ written = InitialRc.written
    /\ resEnded = FALSE
    /\ resJson = NoJson
    /\ sent = <<>>
    /\ nLines = 0

CurrentRc == RcState(buffer, contentBlocks, currentToolCallIndex, written)

\* The "data" handler runs on one network chunk holding the lines ls.
DeliverChunk(ls) ==
    LET st == HandleData(vendor, CurrentRc, Wire(ls)) IN
    /\ upstream = "open"
    /\ buffer' = st.buffer
    /\ contentBlocks' = st.contentBlocks
    /\ currentToolCallIndex' = st.currentToolCallIndex
    /\ written' = st.written
    /\ sent' = sent \o ls
    /\ nLines' = nLines + Len(ls)
    /\ UNCHANGED <<vendor, upstream, resEnded, resJson>>

Deliver(ls) ==
    nLines + Len(ls) <= MaxLines /\ DeliverChunk(ls) /\ UNCHANGED <<upVars, netVars, httpVars, srvVars>>

IdleUpstream == response = Null /\ blockNo = 0 /\ phase = "idle" /\ pending = <<>>

IdleNet == wire = <<>> /\ offset = 0

\* ---- values of a request body and of the configuration
\* A JavaScript value is a record tagged with its type; the text of a string
\* is a sequence of atoms, the items of an array are a sequence of values.
Undefined == [t |-> "undefined"]
JsNull == [t |-> "null"]
Str(s) == [t |-> "string", v |-> s]
Num(n) == [t |-> "number", n |-> n]
Bool(b) == [t |-> "boolean", b |-> b]
Arr(items) == [t |-> "array", items |-> items]

IsString(x) == x.t = "string"
IsArray(x) == x.t = "array"

\* ToBoolean: undefined, null, "", 0 and false are falsy, an array (even empty) is truthy.
Truthy(x) ==
    CASE x.t = "undefined" -> FALSE
      [] x.t = "string" -> x.v # <<>>
      [] x.t = "number" -> x.n # 0
      [] x.t = "boolean" -> x.b
      [] x.t = "null" -> FALSE
      [] OTHER -> TRUE

Secret == <<"s", "3", "c">>
BearerPrefix == "Bearer "

\* CONFIG with every setting present.
FullConfig ==
    [SERVICE_API_KEY |-> Str(Secret),
     AZURE_API_KEY |-> Str(<<"key-a">>),
     AZURE_ENDPOINT |-> Str(<<"https://a">>),
     AZURE_DEPLOYMENT_NAME |-> Str(<<"claude-opus-4-5">>),
     AZURE_OPENAI_API_KEY |-> Str(<<"key-b">>),
     AZURE_OPENAI_ENDPOINT |-> Str(<<"https://b", "/openai/responses">>),
     AZURE_OPENAI_MODEL |-> Str(<<"gpt-5.3-codex">>),
     GPT_USE_CHAT_COMPLETIONS |-> Bool(TRUE)]

\* process.env without AZURE_DEPLOYMENT_NAME: CONFIG holds the default name.
NoEnv == [AZURE_DEPLOYMENT_NAME |-> Undefined]

\* A streamed answer is under way: the request itself has been dealt with.
NoRequest == [method |-> "none"]
NotRun == [ran |-> FALSE]

\* The second request before its first chunk: its own buffer, block map and
\* counter, and the lines its upstream has sent.
NoPeer == [rc |-> InitialRc, sent |-> <<>>]

\* No request has been routed, no error body read.
IdleServer ==
    /\ routed = <<>>
    /\ arrivals = 0
    /\ errorBuffer = <<>>
    /\ errorMessage = Undefined
    /\ callerClosedAt = -1
    /\ peer = NoPeer

IdleHttp ==
    /\ IdleServer
    /\ env = NoEnv
    /\ CONFIG = FullConfig
    /\ variant = "structured"
    /\ req = NoRequest
    /\ pc = "streaming"
    /\ upstreamCalls = <<>>
    /\ transformed = NotRun

\* response.data.on("data") of handleClaudeStreaming: a chunk of one or two lines.
OnDataA ==
    /\ vendor = "A"
    /\ \/ \E l \in LinesA : Deliver(<<l>>)
       \/ \E l1 \in LinesA, l2 \in LinesA : Deliver(<<l1, l2>>)

\* response.data.on("data") of handleGPTStreaming.
OnDataB ==
    /\ vendor = "B"
    /\ \/ \E l \in LinesB : Deliver(<<l>>)
       \/ \E l1 \in LinesB, l2 \in LinesB : Deliver(<<l1, l2>>)

vars == <<rcVars, upVars, netVars, httpVars, srvVars>>

Init == InitStreaming /\ IdleUpstream /\ IdleNet /\ IdleHttp

Next == OnDataA \/ OnDataB

\* Both re-chunkers, fed any sequence of upstream lines.
Spec == Init /\ [][Next]_vars

\* ------------------------------------------------------------ properties
IsToolChunk(c) == c.kind = "tool_calls"
IsHeader(c) == IsToolChunk(c) /\ "id" \in DOMAIN c
IsArgs(c) == IsToolChunk(c) /\ "id" \notin DOMAIN c
HeaderPositions == {i \in 1..Len(written) : IsHeader(written[i])}
ArgsPositions == {i \in 1..Len(written) : IsArgs(written[i])}

\* The header chunk an argument chunk belongs to: the latest earlier header
\* for the same upstream block/item (0 if there is none).
HeaderOf(i) ==
    LET hs == {j \in HeaderPositions : j < i /\ written[j].origin = written[i].origin}
    IN IF hs = {} THEN 0 ELSE CHOOSE j \in hs : \A k \in hs : k <= j

\* C2 (as claimed): every tool call has its own index, indices are handed out
\* 0, 1, 2, ... in order of first appearance, and every argument chunk carries
\* the index of the header of its call, also when calls overlap.
C2_IndexPerCall ==
    /\ \A i \in HeaderPositions :
          written[i].index =
              Cardinality({written[j].id : j \in {k \in HeaderPositions : k < i}} \ {written[i].id})
    /\ \A i \in ArgsPositions :
          HeaderOf(i) # 0 => written[i].index = written[HeaderOf(i)].index

\* C4 (as claimed): a terminal chunk has finish_reason "tool_calls" exactly when
\* a tool-call header chunk was emitted before it, "stop" otherwise, and is
\* immediately followed by the [DONE] marker.
C4_FinishReasonIffHeader ==
    \A i \in 1..Len(written) :
        written[i].kind = "empty" =>
            /\ written[i].finish_reason =
                 (IF \E j \in HeaderPositions : j < i THEN "tool_calls" ELSE "stop")
            /\ i < Len(written)
            /\ written[i + 1] = DoneMarker

\* C6: a data line that is not JSON writes nothing and changes nothing: buffer,
\* block map, counter and everything written are what they would be had the
\* upstream sent the same lines without the unparsable ones.
C6_BadJsonSkipped == CurrentRc = ProcessLines(vendor, InitialRc, WithoutBadJson(sent))

\* An unparsable line was sent first and lines after it produced chunks.
C6_Witness ==
    /\ Len(sent) >= 3
    /\ IsBadJson(sent[1])
    /\ ~IsBadJson(sent[2])
    /\ Len(written) >= 2

\* --------------------------------------- Vendor A response transcoder
TextBlockOf(text) == [type |-> "text", text |-> text]
ToolUseBlock(id, name, input) == [type |-> "tool_use", id |-> id, name |-> name, input |-> input]

\* toolCalls.push({id, type: "function", function: {name, arguments: JSON.stringify(block.input)}})
ToolCallOf(block) ==
    [id |-> block.id, type |-> "function",
     function |-> [name |-> block.name, arguments |-> JSONStringify(block.input)]]

\* A transcoder that joins the text blocks with a blank.
RECURSIVE TextOfBlocksSpaced(_)
TextOfBlocksSpaced(content) ==
    IF content = <<>> THEN <<>>
    ELSE IF Head(content).type # "text" THEN TextOfBlocksSpaced(Tail(content))
    ELSE IF TextOfBlocksSpaced(Tail(content)) = <<>> THEN Head(content).text
    ELSE Head(content).text \o <<" ">> \o TextOfBlocksSpaced(Tail(content))

\* textContent += block.text, block after block
RECURSIVE TextOfBlocks(_)
TextOfBlocks(content) ==
    IF content = <<>> THEN <<>>
    ELSE (IF Head(content).type = "text" THEN Head(content).text ELSE <<>>)
         \o TextOfBlocks(Tail(content))

RECURSIVE ToolCallsOfBlocks(_)
ToolCallsOfBlocks(content) ==
    IF content = <<>> THEN <<>>
    ELSE (IF Head(content).type = "tool_use" THEN <<ToolCallOf(Head(content))>> ELSE <<>>)
         \o ToolCallsOfBlocks(Tail(content))

\* stop_reason === "tool_use" ? "tool_calls" : (stop_reason === "end_turn" ? "stop" : stop_reason)
MapStopReason(stop_reason) ==
    IF stop_reason = "tool_use" THEN "tool_calls"
    ELSE IF stop_reason = "end_turn" THEN "stop"
    ELSE stop_reason

\* usage?.input_tokens || 0: a vendor response may lack usage, or a count in it.
TokensOr0(vendorResponse, field) ==
    IF "usage" \in DOMAIN vendorResponse /\ field \in DOMAIN vendorResponse.usage
    THEN vendorResponse.usage[field]
    ELSE 0

\* A usage block that trusts the total the vendor reports.
UsageOfVendorTotal(vendorResponse) ==
    [prompt_tokens |-> TokensOr0(vendorResponse, "input_tokens"),
     completion_tokens |-> TokensOr0(vendorResponse, "output_tokens"),
     total_tokens |-> IF "usage" \in DOMAIN vendorResponse
                         /\ "total_tokens" \in DOMAIN vendorResponse.usage
                      THEN vendorResponse.usage.total_tokens
                      ELSE TokensOr0(vendorResponse, "input_tokens")
                           + TokensOr0(vendorResponse, "output_tokens")]

\* usage: {prompt_tokens, completion_tokens, total_tokens} of both response transcoders.
UsageOf(vendorResponse) ==
    [prompt_tokens |-> TokensOr0(vendorResponse, "input_tokens"),
     completion_tokens |-> TokensOr0(vendorResponse, "output_tokens"),
     total_tokens |-> TokensOr0(vendorResponse, "input_tokens")
                      + TokensOr0(vendorResponse, "output_tokens")]

\* content && Array.isArray(content) ? content : no blocks
BlocksOf(anthropicResponse) ==
    IF "content" \in DOMAIN anthropicResponse THEN anthropicResponse.content ELSE <<>>

\* transformClaudeResponse: choices[0] and usage of the chat completion.
\* message.content is <<Null>> for null; message.tool_calls is <<>> when the
\* key is absent.
transformClaudeResponse(anthropicResponse) ==
    LET textContent == TextOfBlocks(BlocksOf(anthropicResponse))
        toolCalls == ToolCallsOfBlocks(BlocksOf(anthropicResponse))
    IN [message |-> [role |-> "assistant",
                     content |-> IF textContent # <<>> THEN textContent ELSE <<Null>>,
                     tool_calls |-> toolCalls],
        finish_reason |-> MapStopReason(anthropicResponse.stop_reason),
        usage |-> UsageOf(anthropicResponse)]

\* --------------------------------------- Vendor B response transcoder
\* The items of a Responses-API output: a message with content parts (or a
\* plain string), and a function call whose call_id, id and arguments may be
\* missing.
OutputText(text) == [type |-> "output_text", text |-> Str(text)]
Refusal == [type |-> "refusal", text |-> Undefined]
OutputMessage(content) == [type |-> "message", content |-> content]
OutputCall(call_id, id, name, arguments) ==
    [type |-> "function_call", call_id |-> call_id, id |-> id, name |-> Str(<<name>>),
     arguments |-> arguments]
Reasoning == [type |-> "reasoning"]

\* c.type === "output_text" || c.type === "text" ? c.text || "" : nothing
OutputPartText(c) ==
    IF c.type \in {"output_text", "text"} /\ Truthy(c.text) THEN c.text.v ELSE <<>>

\* What one output item adds to textContent.
OutputItemText(item) ==
    IF item.type = "message" /\ Truthy(item.content)
    THEN IF IsArray(item.content)
         THEN Concat([k \in 1..Len(item.content.items) |-> OutputPartText(item.content.items[k])])
         ELSE IF IsString(item.content) THEN item.content.v
         ELSE <<>>
    ELSE <<>>

\* "call_" + Date.now()
CallPrefix == "call_"

\* {id: item.call_id || item.id || "call_" + Date.now(), type: "function",
\*  function: {name: item.name, arguments: item.arguments || "{}"}}
ToolCallOfItem(item, now) ==
    [id |-> IF Truthy(item.call_id) THEN item.call_id
            ELSE IF Truthy(item.id) THEN item.id
            ELSE Str(<<CallPrefix, now>>),
     type |-> "function",
     function |-> [name |-> item.name,
                   arguments |-> IF Truthy(item.arguments) THEN item.arguments
                                 ELSE Str(JSONStringify(EmptyObject))]]

\* for (const item of output): the text gathered
RECURSIVE TextOfOutput(_)
TextOfOutput(output) ==
    IF output = <<>> THEN <<>>
    ELSE OutputItemText(Head(output)) \o TextOfOutput(Tail(output))

\* for (const item of output): the tool calls gathered
RECURSIVE ToolCallsOfOutput(_, _)
ToolCallsOfOutput(output, now) ==
    IF output = <<>> THEN <<>>
    ELSE (IF Head(output).type = "function_call" THEN <<ToolCallOfItem(Head(output), now)>>
          ELSE <<>>)
         \o ToolCallsOfOutput(Tail(output), now)

\* A transcoder that never reports tool calls as the reason to stop.
FinishReasonOfAlwaysStop(toolCalls) == "stop"

\* finish_reason: "stop", replaced by "tool_calls" if (toolCalls.length > 0)
FinishReasonOf(toolCalls) == IF Len(toolCalls) > 0 THEN "tool_calls" ELSE "stop"

\* output && Array.isArray(output) ? output : no items
OutputOf(gptResponse) ==
    IF "output" \in DOMAIN gptResponse THEN gptResponse.output ELSE <<>>

\* transformGPTResponse(gptResponse) at the clock reading now: choices[0] and
\* usage of the chat completion, in the shape of transformClaudeResponse.
transformGPTResponse(gptResponse, now) ==
    LET textContent == TextOfOutput(OutputOf(gptResponse))
        toolCalls == ToolCallsOfOutput(OutputOf(gptResponse), now)
    IN [message |-> [role |-> "assistant",
                     content |-> IF textContent # <<>> THEN textContent ELSE <<Null>>,
                     tool_calls |-> toolCalls],
        finish_reason |-> FinishReasonOf(toolCalls),
        usage |-> UsageOf(gptResponse)]

\* ------------------------- Vendor A upstream streaming one response
Inputs == {EmptyObject, ObjectA1}
Texts == {<<"h", "i">>}
Block0 == {TextBlockOf(t) : t \in Texts} \cup {ToolUseBlock("X", "f", in) : in \in Inputs}
Block1 == {TextBlockOf(t) : t \in Texts} \cup {ToolUseBlock("Y", "g", in) : in \in Inputs}
ContentsA == {<<>>} \cup {<<b>> : b \in Block0} \cup {<<b0, b1>> : b0 \in Block0, b1 \in Block1}

HasToolUse(content) == \E i \in 1..Len(content) : content[i].type = "tool_use"

\* What the vendor answers to a non-streaming call.
ResponsesA ==
    {[content |-> c,
      stop_reason |-> IF HasToolUse(c) THEN "tool_use" ELSE "end_turn",
      usage |-> [input_tokens |-> 3, output_tokens |-> 2]] : c \in ContentsA}

\* The texts in which the vendor may stream the input of a tool_use block as
\* partial_json: the compact text, the text with spaces, and nothing at all
\* for an input without members.
StreamedJsonTexts(input) ==
    {JSONStringify(input), SpacedJson(input)} \cup (IF input = EmptyObject THEN {<<>>} ELSE {})

\* The vendor cuts what is left either nowhere or in the middle.
FragmentLengths(n) == {n, (n + 1) \div 2}

CurrentBlock == response.content[blockNo]

StartAtom(i, block) ==
    IF block.type = "text" THEN (IF i = 0 THEN "A:start0T" ELSE "A:start1T")
    ELSE (IF i = 0 THEN "A:start0X" ELSE "A:start1Y")

StopAtom(i) == IF i = 0 THEN "A:stop0" ELSE "A:stop1"

\* One SSE event on the wire: an "event:" line, the data line, a blank line.
SseEvent(data) == <<EventNameLine, DataPrefix \o data, <<>> >>

Emit(data) == DeliverChunk(SseEvent(data)) /\ UNCHANGED <<netVars, httpVars, srvVars>>

InitStreamA ==
    /\ InitStreaming
    /\ IdleNet
    /\ IdleHttp
    /\ vendor = "A"
    /\ response \in ResponsesA
    /\ blockNo = 1
    /\ phase = "start"
    /\ pending = <<>>

\* content_block_start of the next block.
SendBlockStart ==
    /\ phase = "start"
    /\ blockNo <= Len(response.content)
    /\ Emit(<<StartAtom(blockNo - 1, CurrentBlock)>>)
    /\ pending' \in (IF CurrentBlock.type = "text" THEN {CurrentBlock.text}
                     ELSE StreamedJsonTexts(CurrentBlock.input))
    /\ phase' = "delta"
    /\ UNCHANGED <<response, blockNo>>

\* content_block_delta carrying the next fragment of the current block.
SendDelta ==
    /\ phase = "delta"
    /\ pending # <<>>
    /\ \E k \in FragmentLengths(Len(pending)) :
          /\ Emit(IF CurrentBlock.type = "text"
                  THEN TextDeltaJson(SubSeq(pending, 1, k))
                  ELSE InputJsonDeltaJson(blockNo - 1, SubSeq(pending, 1, k)))
          /\ pending' = Drop(pending, k)
    /\ UNCHANGED <<response, blockNo, phase>>

DeltasSentFor(i) ==
    {n \in 1..Len(sent) :
        /\ IsDataLine(sent[n])
        /\ Payload(sent[n]) # <<>>
        /\ Payload(sent[n])[1] = JsonOpen(i)}

\* An input_json_delta with an empty partial_json, sent before any other delta
\* of a tool_use block.
SendEmptyDelta ==
    /\ phase = "delta"
    /\ CurrentBlock.type = "tool_use"
    /\ DeltasSentFor(blockNo - 1) = {}
    /\ Emit(InputJsonDeltaJson(blockNo - 1, <<>>))
    /\ UNCHANGED upVars

\* content_block_stop once the block's text is out.
SendBlockStop ==
    /\ phase = "delta"
    /\ pending = <<>>
    /\ Emit(<<StopAtom(blockNo - 1)>>)
    /\ blockNo' = blockNo + 1
    /\ phase' = "start"
    /\ UNCHANGED <<response, pending>>

\* message_stop after the last block.
SendMessageStop ==
    /\ phase = "start"
    /\ blockNo > Len(response.content)
    /\ Emit(<<"A:message_stop">>)
    /\ phase' = "done"
    /\ UNCHANGED <<response, blockNo, pending>>

\* response.data.on("end"): res.end().
OnEnd ==
    /\ upstream = "open"
    /\ phase = "done"
    /\ upstream' = "ended"
    /\ resEnded' = TRUE
    /\ UNCHANGED <<vendor, buffer, contentBlocks, currentToolCallIndex, written, resJson, sent, nLines>>
    /\ UNCHANGED <<upVars, netVars, httpVars, srvVars>>

\* A response that never counts its headers as sent.
headersSentNever == FALSE

\* res.headersSent: the first res.write() sends the status line and the headers.
headersSent == written # <<>>

\* response.data.on("error"): a JSON error if nothing was written yet, else res.end().
OnError ==
    /\ upstream = "open"
    /\ phase # "done"
    /\ upstream' = "errored"
    /\ resEnded' = TRUE
    /\ resJson' = IF ~headersSent THEN [status |-> 500, type |-> "stream_error"] ELSE resJson
    /\ UNCHANGED <<vendor, buffer, contentBlocks, currentToolCallIndex, written, sent, nLines>>
    /\ UNCHANGED <<upVars, netVars, httpVars, srvVars>>

NextStreamA ==
    \/ SendBlockStart
    \/ SendDelta
    \/ SendEmptyDelta
    \/ SendBlockStop
    \/ SendMessageStop
    \/ OnEnd
    \/ OnError

\* Re-chunker A fed the event stream of one Vendor A response.
SpecStreamA == InitStreamA /\ [][NextStreamA]_vars

\* ---- either re-chunker on an upstream stream that may break at any point
LinesBeforeError ==
    IF vendor = "A" THEN {DataLine("A:text"), DataLine("A:message_stop"), BadJsonLine}
    ELSE {DataLine("B:text"), DataLine("B:completed"), BadJsonLine}

\* response.data.on("data") with one line.
OnDataLine == \E l \in LinesBeforeError : Deliver(<<l>>)

\* response.data.on("end") of an upstream that may end after any line.
OnEndAnytime ==
    /\ upstream = "open"
    /\ phase = "idle"
    /\ upstream' = "ended"
    /\ resEnded' = TRUE
    /\ UNCHANGED <<vendor, buffer, contentBlocks, currentToolCallIndex, written, resJson, sent, nLines>>
    /\ UNCHANGED <<upVars, netVars, httpVars, srvVars>>

\* The caller's connection closes.  Neither handler listens for it: nothing
\* but the connection changes.
CallerCloses ==
    /\ upstream = "open"
    /\ callerClosedAt = -1
    /\ callerClosedAt' = nLines
    /\ UNCHANGED <<rcVars, upVars, netVars, httpVars, routed, arrivals, errorBuffer, errorMessage, peer>>

NextStreamError == OnDataLine \/ OnError \/ OnEndAnytime \/ CallerCloses

SpecStreamError == Init /\ [][NextStreamError]_vars

\* ---- two requests streaming from Vendor A at the same time
ConcurrentLines ==
    {DataLine("A:start0X"), DataLine("A:stop0"), DataLine("A:text"), DataLine("A:message_stop")}

\* A tool-call counter hoisted out of the handler: the second request reads the
\* first one's.
PeerStateSharedCounter == [peer.rc EXCEPT !.currentToolCallIndex = currentToolCallIndex]

\* let buffer, const contentBlocks, let currentToolCallIndex of the second
\* call of handleClaudeStreaming: the closure its data handler reads.
PeerState == peer.rc

\* The data handler of the first request runs on one line.
OnDataFirst ==
    /\ nLines < MaxConcurrentLines
    /\ \E l \in ConcurrentLines : DeliverChunk(<<l>>)
    /\ UNCHANGED <<upVars, netVars, httpVars, srvVars>>

\* The data handler of the second request runs on one line.
OnDataPeer ==
    /\ Len(peer.sent) < MaxConcurrentLines
    /\ \E l \in ConcurrentLines :
          peer' = [rc |-> HandleData("A", PeerState, Wire(<<l>>)), sent |-> Append(peer.sent, l)]
    /\ UNCHANGED <<rcVars, upVars, netVars, httpVars, routed, arrivals, errorBuffer, errorMessage,
                   callerClosedAt>>

InitTwoStreams == Init /\ vendor = "A"

NextTwoStreams == OnDataFirst \/ OnDataPeer \/ OnEndAnytime \/ OnError

SpecTwoStreams == InitTwoStreams /\ [][NextTwoStreams]_vars

\* ---- what a client assembles from the chunks
RECURSIVE ContentOf(_)
ContentOf(w) ==
    IF w = <<>> THEN <<>>
    ELSE (IF Head(w).kind = "content" THEN Head(w).content ELSE <<>>) \o ContentOf(Tail(w))

RECURSIVE ArgumentsOf(_, _)
ArgumentsOf(w, idx) ==
    IF w = <<>> THEN <<>>
    ELSE (IF IsToolChunk(Head(w)) /\ Head(w).index = idx THEN Head(w).arguments ELSE <<>>)
         \o ArgumentsOf(Tail(w), idx)

ToolIndices(w) == {w[i].index : i \in {j \in 1..Len(w) : IsToolChunk(w[j])}}

FirstHeader(w, idx) ==
    LET hs == {i \in 1..Len(w) : IsHeader(w[i]) /\ w[i].index = idx}
    IN w[CHOOSE i \in hs : \A j \in hs : i <= j]

\* tool_calls as the client holds them: entry k is built from the chunks with index k-1.
AssembledToolCalls(w) ==
    [k \in 1..Cardinality(ToolIndices(w)) |->
        [id |-> FirstHeader(w, k - 1).id, type |-> "function",
         function |-> [name |-> FirstHeader(w, k - 1).name, arguments |-> ArgumentsOf(w, k - 1)]]]

\* An absent content (null) and an empty content are the same to the client.
ContentText(c) == IF c = <<Null>> THEN <<>> ELSE c

\* C1 (as claimed): once the stream of a response is complete, the message the
\* client has assembled equals the message of the non-streaming transcoder for
\* the same response: same content, same tool calls with the same ids, names
\* and arguments in the same order.
C1_StreamEqualsNonStream ==
    phase = "done" =>
        LET message == transformClaudeResponse(response).message IN
        /\ ContentOf(written) = ContentText(message.content)
        /\ AssembledToolCalls(written) = message.tool_calls

\* ---- C3: the chunks of one tool call
ParsedSent == [n \in 1..Len(sent) |->
                 IF IsDataLine(sent[n]) /\ Payload(sent[n]) # DoneLiteral
                 THEN JSONParse(Payload(sent[n])) ELSE ParseError]

IsJsonDeltaFor(event, i) ==
    /\ event.type = "content_block_delta"
    /\ event.delta.type = "input_json_delta"
    /\ event.index = i

\* The partial_json fragments the upstream has sent for block i, in arrival order.
FragmentsSentFor(i) ==
    LET ds == SelectSeq(ParsedSent, LAMBDA e : IsJsonDeltaFor(e, i))
    IN [k \in 1..Len(ds) |-> ds[k].delta.partial_json]

\* The tool chunks written for block i, in emission order.
ToolChunksFor(i) == SelectSeq(written, LAMBDA c : IsToolChunk(c) /\ c.origin = i)

\* C3: once message_stop has been handled, every tool_use block of the stream
\* has produced one header chunk with its id, its name and empty arguments,
\* followed by one chunk per input_json_delta carrying that fragment under the
\* header's index and neither id nor name (so the fragments concatenate to what
\* the upstream sent), and the terminal chunk says "tool_calls".
C3_ToolCallChunks ==
    phase = "done" =>
        \A b \in 1..Len(response.content) :
            response.content[b].type = "tool_use" =>
                LET chunks == ToolChunksFor(b - 1)
                    frags == FragmentsSentFor(b - 1)
                IN /\ Len(chunks) = 1 + Len(frags)
                   /\ IsHeader(chunks[1])
                   /\ chunks[1].id = response.content[b].id
                   /\ chunks[1].name = response.content[b].name
                   /\ chunks[1].arguments = <<>>
                   /\ \A k \in 1..Len(frags) :
                         /\ chunks[k + 1].arguments = frags[k]
                         /\ chunks[k + 1].index = chunks[1].index
                         /\ "id" \notin DOMAIN chunks[k + 1]
                         /\ "name" \notin DOMAIN chunks[k + 1]
                   /\ Concat([k \in 1..Len(frags) |-> chunks[k + 1].arguments]) = Concat(frags)
                   /\ Len(written) >= 2
                   /\ written[Len(written) - 1] = StopChunk("tool_calls")

\* A stream is complete in which the second block is a tool call whose
\* arguments came in two non-empty fragments.
C3_Witness ==
    /\ phase = "done"
    /\ Len(response.content) = 2
    /\ response.content[2].type = "tool_use"
    /\ Len(FragmentsSentFor(1)) = 2
    /\ \A k \in 1..2 : FragmentsSentFor(1)[k] # <<>>
    /\ Len(ToolChunksFor(1)) = 3

\* ------------------------------------ framing under network chunking
\* Complete lines an upstream body is made of.  The text delta holds a
\* two-byte character, on the wire as its two bytes.
TwoByteTextLine == DataPrefix \o <<TextOpen, "h", LeadByte, ContByte, StringClose>>
FramingLines ==
    {TwoByteTextLine, EventNameLine, DoneLine, BadJsonLine, <<>>,
     DataLine("A:start0X"), DataPrefix \o InputJsonDeltaJson(0, Frag2),
     DataLine("A:message_stop"), DataLine("B:added0X"), DataLine("B:completed"),
     DataPrefix \o <<" ", "A:text", "\r">>}

\* Bodies: two complete lines, then possibly the beginning of a third line
\* that the upstream never completes.
WireBodies ==
    {Wire(<<l1, l2>>) \o tail :
        l1 \in FramingLines, l2 \in FramingLines, tail \in {<<>>, DataPrefix, DataLine("A:text")}}

InitFraming ==
    /\ InitStreaming
    /\ IdleUpstream
    /\ IdleHttp
    /\ wire \in WireBodies
    /\ offset = 0

\* The network hands the next n bytes to the "data" handler as one chunk.
OnDataBytes ==
    /\ upstream = "open"
    /\ offset < Len(wire)
    /\ \E n \in 1..(Len(wire) - offset) :
          LET st == HandleData(vendor, CurrentRc, SubSeq(wire, offset + 1, offset + n)) IN
          /\ buffer' = st.buffer
          /\ contentBlocks' = st.contentBlocks
          /\ currentToolCallIndex' = st.currentToolCallIndex
          /\ written' = st.written
          /\ offset' = offset + n
    /\ UNCHANGED <<vendor, upstream, resEnded, resJson, sent, nLines, wire>>
    /\ UNCHANGED <<upVars, httpVars, srvVars>>

NextFraming == OnDataBytes

\* Either re-chunker fed one body, cut into network chunks at any positions.
SpecFraming == InitFraming /\ [][NextFraming]_vars

\* The state after the whole body has arrived as a single chunk.
OneChunk == HandleData(vendor, InitialRc, wire)

\* C5 (as claimed): however the body is cut into chunks, once all of it has
\* arrived the re-chunker has written the same chunks, and holds the same
\* buffer, block map and counter, as when the body arrives as one chunk.
C5_SplitIndependent == offset = Len(wire) => CurrentRc = OneChunk

\* ------------------------------------------------------------ model router
GPT_MODELS == {"gpt", "openai", "codex", "o1", "o3"}

\* String.prototype.toLowerCase, atom by atom.
LowerAtom(a) ==
    CASE a = "GPT" -> "gpt"
      [] a = "Claude" -> "claude"
      [] a = "O3" -> "o3"
      [] OTHER -> a

ToLowerCase(s) == [i \in 1..Len(s) |-> LowerAtom(s[i])]

\* String.prototype.includes: model names are made of atoms that no pattern straddles.
Includes(s, pattern) == \E i \in 1..Len(s) : s[i] = pattern

\* A router that compares the name as it came, without lower-casing it.
isGPTModelCaseSensitive(modelName) ==
    IF ~Truthy(modelName) THEN [threw |-> FALSE, value |-> FALSE]
    ELSE IF ~IsString(modelName) THEN [threw |-> TRUE, value |-> FALSE]
    ELSE [threw |-> FALSE,
          value |-> \E pattern \in GPT_MODELS : Includes(modelName.v, pattern)]

\* A router built on a stateful matcher, whose answer alternates from call to call.
isGPTModelAlternating(modelName) ==
    IF ~Truthy(modelName) THEN [threw |-> FALSE, value |-> FALSE]
    ELSE IF ~IsString(modelName) THEN [threw |-> TRUE, value |-> FALSE]
    ELSE [threw |-> FALSE,
          value |-> /\ Len(routed) % 2 = 0
                    /\ \E pattern \in GPT_MODELS : Includes(ToLowerCase(modelName.v), pattern)]

\* isGPTModel(modelName): the answer, or threw when modelName has no toLowerCase.
isGPTModel(modelName) ==
    IF ~Truthy(modelName) THEN [threw |-> FALSE, value |-> FALSE]
    ELSE IF ~IsString(modelName) THEN [threw |-> TRUE, value |-> FALSE]
    ELSE [threw |-> FALSE,
          value |-> \E pattern \in GPT_MODELS : Includes(ToLowerCase(modelName.v), pattern)]

\* ------------------------------------------------------- request messages
\* A chat message; the keys a message does not carry are Undefined.
Msg(role, content) ==
    [role |-> role, content |-> content, tool_calls |-> Undefined,
     tool_call_id |-> Undefined, name |-> Undefined]

TextPart(text) == [type |-> "text", text |-> Str(text)]
ImagePart == [type |-> "image_url"]

HasImage(msg) ==
    /\ Truthy(msg.content)
    /\ IsArray(msg.content)
    /\ \E k \in 1..Len(msg.content.items) : msg.content.items[k].type = "image_url"

RECURSIVE FixLoop(_, _, _)
FixLoop(messages, i, fixed) ==
    IF i > Len(messages) THEN fixed
    ELSE LET msg == messages[i]
             kept == IF /\ HasImage(msg)
                        /\ i > 1
                        /\ fixed # <<>>
                        /\ fixed[Len(fixed)].role = "assistant"
                     THEN SubSeq(fixed, 1, Len(fixed) - 1)
                     ELSE fixed
         IN FixLoop(messages, i + 1, Append(kept, msg))

\* fixImageTurns(messages)
fixImageTurns(messages) ==
    IF ~IsArray(messages) THEN messages ELSE Arr(FixLoop(messages.items, 1, <<>>))

\* ------------------------------------------ request transcoder, Vendor A
Throw(message) == [ok |-> FALSE, error |-> message]
Return(value) == [ok |-> TRUE, value |-> value]

InvalidRequestFormat == "Invalid request format"
EmptyMessageSet == "Invalid request: no valid messages found"

SystemPrefix == "System: "

RECURSIVE Join(_, _)
Join(texts, sep) ==
    IF texts = <<>> THEN <<>>
    ELSE IF Len(texts) = 1 THEN texts[1]
    ELSE texts[1] \o sep \o Join(Tail(texts), sep)

\* JSON.stringify of a content array.
StringifyPart(c) ==
    IF c.type = "text" THEN <<"{\"type\":\"text\",\"text\":\"">> \o c.text.v \o <<"\"}">>
    ELSE <<"{\"type\":\"image_url\"}">>

JSONStringifyContent(content) ==
    IF IsArray(content)
    THEN Str(<<"[">> \o Join([k \in 1..Len(content.items) |-> StringifyPart(content.items[k])], <<",">>)
             \o <<"]">>)
    ELSE Undefined

\* `${value}`: String(value)
TemplateString(value) ==
    CASE IsString(value) -> value.v
      [] IsArray(value) -> Join([k \in 1..Len(value.items) |-> <<"[object Object]">>], <<",">>)
      [] OTHER -> <<value.t>>

JsonObjects == {EmptyObject, ObjectA1, ObjectA1B2}

\* JSON.parse(toolCall.function.arguments), {} when it throws.
ParseArguments(arguments) ==
    IF IsString(arguments)
    THEN IF \E o \in JsonObjects : arguments.v \in {JSONStringify(o), SpacedJson(o)}
         THEN CHOOSE o \in JsonObjects : arguments.v \in {JSONStringify(o), SpacedJson(o)}
         ELSE EmptyObject
    ELSE EmptyObject

\* A tool call of an assistant message, in the OpenAI shape and in the flat
\* shape that carries the name on the call itself.
ToolCall(id, name, arguments) ==
    [id |-> Str(<<id>>), name |-> Undefined,
     function |-> [name |-> Str(<<name>>), arguments |-> Str(arguments)]]
FlatToolCall(id, name) == [id |-> Str(<<id>>), name |-> Str(<<name>>), function |-> Undefined]

\* toolCall.function?.name || toolCall.name
CallName(toolCall) ==
    IF toolCall.function # Undefined /\ Truthy(toolCall.function.name)
    THEN toolCall.function.name ELSE toolCall.name

\* toolCall.function?.arguments
CallArguments(toolCall) ==
    IF toolCall.function # Undefined THEN toolCall.function.arguments ELSE Undefined

ToolUseOf(toolCall) ==
    [type |-> "tool_use", id |-> toolCall.id, name |-> CallName(toolCall),
     input |-> ParseArguments(CallArguments(toolCall))]

\* .filter((msg) => msg && (msg.content || msg.content === "" || msg.tool_calls))
KeepA(msg) == Truthy(msg.content) \/ msg.content = Str(<<>>) \/ Truthy(msg.tool_calls)

\* .map((msg) => ...) of the messages branch.
MapA(msg) ==
    IF msg.role = "system"
    THEN [role |-> "user",
          content |-> IF IsString(msg.content) THEN Str(<<SystemPrefix>> \o msg.content.v)
                      ELSE msg.content]
    ELSE IF msg.role \in {"tool", "function"}
    THEN [role |-> "user",
          content |-> Arr(<<[type |-> "tool_result",
                             tool_use_id |-> IF Truthy(msg.tool_call_id) THEN msg.tool_call_id
                                             ELSE msg.name,
                             content |-> IF IsString(msg.content) THEN msg.content
                                         ELSE JSONStringifyContent(msg.content)]>>)]
    ELSE IF msg.role = "assistant" /\ Truthy(msg.tool_calls) /\ IsArray(msg.tool_calls)
    THEN [role |-> "assistant",
          content |-> Arr((IF Truthy(msg.content)
                           THEN <<[type |-> "text", text |-> msg.content]>> ELSE <<>>)
                          \o [k \in 1..Len(msg.tool_calls.items) |-> ToolUseOf(msg.tool_calls.items[k])])]
    ELSE [role |-> IF msg.role = "assistant" THEN "assistant" ELSE "user",
          content |-> msg.content]

\* input.filter((msg) => msg && msg.content !== undefined).map(...)
MapInputA(msg) ==
    IF msg.role = "system"
    THEN [role |-> "user", content |-> Str(<<SystemPrefix>> \o TemplateString(msg.content))]
    ELSE [role |-> IF msg.role = "assistant" THEN "assistant" ELSE "user",
          content |-> msg.content]

\* The branch of the if / else-if chain of transformRequestForClaude that runs.
SourceA(body) ==
    IF Truthy(body.messages) /\ IsArray(body.messages) THEN "messages"
    ELSE IF Truthy(body.role) /\ Truthy(body.content) THEN "role+content"
    ELSE IF Truthy(body.input) THEN "input"
    ELSE IF Truthy(body.content) THEN "content"
    ELSE "none"

\* anthropicMessages as the branch builds it.
MessagesA(source, body) ==
    CASE source = "messages" ->
           LET kept == SelectSeq(body.messages.items, KeepA)
           IN [k \in 1..Len(kept) |-> MapA(kept[k])]
      [] source = "role+content" ->
           <<[role |-> IF body.role = Str(<<"system">>) THEN "user" ELSE body.role.v[1],
              content |-> IF body.role = Str(<<"system">>)
                          THEN Str(<<SystemPrefix>> \o TemplateString(body.content))
                          ELSE body.content]>>
      [] source = "input" ->
           IF IsArray(body.input)
           THEN LET kept == SelectSeq(body.input.items, LAMBDA msg : msg.content # Undefined)
                IN [k \in 1..Len(kept) |-> MapInputA(kept[k])]
           ELSE <<[role |-> IF Truthy(body.user) THEN body.user.v[1] ELSE "user",
                   content |-> body.input]>>
      [] source = "content" ->
           <<[role |-> "user", content |-> body.content]>>

\* A transcoder that lets an empty message list through.
RequireMessagesNever(anthropicMessages, anthropicRequest) == Return(anthropicRequest)

\* if (!anthropicMessages || anthropicMessages.length === 0) throw ...
RequireMessages(anthropicMessages, anthropicRequest) ==
    IF anthropicMessages = <<>> THEN Throw(EmptyMessageSet) ELSE Return(anthropicRequest)

DefaultMaxTokens == 8192

\* A JSON schema, and { type: "object", properties: {} }.
Schema(properties) == [t |-> "object", properties |-> properties]
DefaultSchema == Schema("none")

\* A tool in the OpenAI shape, a tool in the vendor's own flat shape, and a
\* tool that says it is a function but carries none.
FunctionTool(name, parameters) ==
    [type |-> "function",
     function |-> [name |-> Str(<<name>>), description |-> Undefined, parameters |-> parameters]]
FlatTool(name) == [type |-> "custom", name |-> Str(<<name>>), input_schema |-> DefaultSchema]
BrokenTool == [type |-> "function", function |-> Undefined]

\* tool.function.name of a tool without function: TypeError
ToolThrows(tool) == tool.type = "function" /\ tool.function = Undefined

TypeErrorMessage == "Cannot read properties of undefined"

\* tools.map(tool => ...)
AnthropicTool(tool) ==
    IF tool.type = "function" /\ ~ToolThrows(tool)
    THEN [name |-> tool.function.name,
          description |-> IF Truthy(tool.function.description) THEN tool.function.description
                          ELSE Str(<<>>),
          input_schema |-> IF Truthy(tool.function.parameters) THEN tool.function.parameters
                           ELSE DefaultSchema]
    ELSE tool

HasTools(tools) == Truthy(tools) /\ IsArray(tools) /\ tools.items # <<>>

\* A transcoder that forwards the tools whatever tool_choice says.
ToolsAIgnoringChoice(tools, tool_choice) ==
    IF HasTools(tools)
    THEN Arr([k \in 1..Len(tools.items) |-> AnthropicTool(tools.items[k])])
    ELSE Undefined

\* anthropicRequest.tools after the tools and the tool_choice blocks: Undefined
\* when the key is absent.
ToolsA(tools, tool_choice) ==
    IF HasTools(tools) /\ tool_choice # Str(<<"none">>)
    THEN Arr([k \in 1..Len(tools.items) |-> AnthropicTool(tools.items[k])])
    ELSE Undefined

\* A tool_choice object, naming a function or not.
ChoiceObject(function) == [t |-> "object", function |-> function]
NamedChoice(name) == ChoiceObject([name |-> Str(<<name>>)])

\* anthropicRequest.tool_choice: Undefined when the key is absent.
ToolChoiceA(tool_choice) ==
    IF ~Truthy(tool_choice) THEN Undefined
    ELSE IF tool_choice = Str(<<"auto">>) THEN [type |-> "auto"]
    ELSE IF tool_choice = Str(<<"none">>) THEN Undefined
    ELSE IF tool_choice = Str(<<"required">>) THEN [type |-> "any"]
    ELSE IF /\ tool_choice.t = "object"
            /\ tool_choice.function # Undefined
            /\ Truthy(tool_choice.function.name)
    THEN [type |-> "tool", name |-> tool_choice.function.name]
    ELSE Undefined

\* The vendor request once the messages and the model name are known.
AnthropicRequest(model, anthropicMessages, openAIRequest) ==
    [model |-> model,
     messages |-> anthropicMessages,
     max_tokens |-> IF Truthy(openAIRequest.max_tokens) THEN openAIRequest.max_tokens
                    ELSE Num(DefaultMaxTokens),
     stream |-> openAIRequest.stream,
     tools |-> ToolsA(openAIRequest.tools, openAIRequest.tool_choice),
     tool_choice |-> ToolChoiceA(openAIRequest.tool_choice)]

\* The tools block throws on a tool without function.
ToolsThrow(tools) ==
    HasTools(tools) /\ \E k \in 1..Len(tools.items) : ToolThrows(tools.items[k])

\* transformRequestForClaude(openAIRequest): model, messages, max_tokens, stream,
\* tools and tool_choice of the vendor request.
transformRequestForClaude(cfg, openAIRequest) ==
    LET source == SourceA(openAIRequest) IN
    IF source = "none" THEN Throw(InvalidRequestFormat)
    ELSE LET anthropicMessages == MessagesA(source, openAIRequest)
             checked == RequireMessages(anthropicMessages,
                            AnthropicRequest(cfg.AZURE_DEPLOYMENT_NAME, anthropicMessages,
                                             openAIRequest))
         IN IF checked.ok /\ ToolsThrow(openAIRequest.tools) THEN Throw(TypeErrorMessage)
            ELSE checked

\* ------------------------------------------ request transcoder, Vendor B
NoUsableInput == "No usable input/messages for GPT request"

PartText(c) ==
    IF c.type \in {"text", "input_text", "output_text"} /\ Truthy(c.text) THEN c.text.v ELSE <<>>

\* textFromParts(content): the texts of the text parts, joined by newlines.
textFromParts(content) ==
    IF IsString(content) THEN content
    ELSE IF ~IsArray(content) THEN Str(<<>>)
    ELSE Str(Join(SelectSeq([k \in 1..Len(content.items) |-> PartText(content.items[k])],
                            LAMBDA text : text # <<>>), <<"\n">>))

\* normalizeToolOutput(content)
normalizeToolOutput(content) ==
    IF IsString(content) THEN content
    ELSE IF IsArray(content)
         THEN IF Truthy(textFromParts(content)) THEN textFromParts(content)
              ELSE JSONStringifyContent(content)
    ELSE Str(<<>>)

\* systemPrompt = systemPrompt ? systemPrompt + "\n" + text : text
AddSystem(systemPrompt, text) ==
    IF Truthy(systemPrompt) THEN Str(systemPrompt.v \o <<"\n">> \o text.v) ELSE text

MessageItemOf(role, text) == [type |-> "message", role |-> role, content |-> text]

\* {type: "function_call", call_id: tc.id, name: tc.function?.name,
\*  arguments: tc.function?.arguments || "{}"}
FunctionCallOf(tc) ==
    [type |-> "function_call", call_id |-> tc.id,
     name |-> IF tc.function # Undefined THEN tc.function.name ELSE Undefined,
     arguments |-> IF Truthy(CallArguments(tc)) THEN CallArguments(tc)
                   ELSE Str(JSONStringify(EmptyObject))]

\* One iteration of "for (const msg of messages)"; acc holds inputItems and systemPrompt.
MessageStepB(acc, msg) ==
    LET text == textFromParts(msg.content) IN
    IF msg.role = "system" THEN [acc EXCEPT !.systemPrompt = AddSystem(@, text)]
    ELSE IF msg.role = "user"
    THEN IF Truthy(text) THEN [acc EXCEPT !.inputItems = Append(@, MessageItemOf("user", text))]
         ELSE acc
    ELSE IF msg.role = "assistant"
    THEN [acc EXCEPT !.inputItems =
              @ \o (IF Truthy(text) THEN <<MessageItemOf("assistant", text)>> ELSE <<>>)
                \o (IF Truthy(msg.tool_calls) /\ IsArray(msg.tool_calls)
                    THEN [k \in 1..Len(msg.tool_calls.items) |->
                             FunctionCallOf(msg.tool_calls.items[k])]
                    ELSE <<>>)]
    ELSE IF msg.role \in {"tool", "function"}
    THEN [acc EXCEPT !.inputItems =
              Append(@, [type |-> "function_call_output", call_id |-> msg.tool_call_id,
                         output |-> normalizeToolOutput(msg.content)])]
    ELSE acc

\* One iteration of "for (const item of input)".
InputStepB(acc, item) ==
    LET itemContent == textFromParts(item.content) IN
    IF item.role \in {"system", "developer"}
    THEN IF Truthy(itemContent) THEN [acc EXCEPT !.systemPrompt = AddSystem(@, itemContent)]
         ELSE acc
    ELSE IF item.role # "" /\ Truthy(itemContent)
    THEN [acc EXCEPT !.inputItems =
              Append(@, MessageItemOf(IF item.role = "assistant" THEN "assistant" ELSE "user",
                                      itemContent))]
    ELSE acc

\* for (const msg of messages)
RECURSIVE MessagesLoopB(_, _)
MessagesLoopB(acc, s) ==
    IF s = <<>> THEN acc ELSE MessagesLoopB(MessageStepB(acc, Head(s)), Tail(s))

\* for (const item of input)
RECURSIVE InputLoopB(_, _)
InputLoopB(acc, s) ==
    IF s = <<>> THEN acc ELSE InputLoopB(InputStepB(acc, Head(s)), Tail(s))

IsSystemItem(item) == item.type = "message" /\ item.role \in {"system", "developer"}

\* One iteration of the closing inputItems.filter(...).
StripStepB(acc, item) ==
    IF IsSystemItem(item)
    THEN IF Truthy(textFromParts(item.content))
         THEN [acc EXCEPT !.systemPrompt = AddSystem(@, textFromParts(item.content))]
         ELSE acc
    ELSE [acc EXCEPT !.inputItems = Append(@, item)]

\* inputItems = inputItems.filter(...)
RECURSIVE StripLoopB(_, _)
StripLoopB(acc, s) ==
    IF s = <<>> THEN acc ELSE StripLoopB(StripStepB(acc, Head(s)), Tail(s))

DefaultMaxOutputTokens == 16384

\* transformRequestForGPT(openAIRequest): model, input, instructions,
\* max_output_tokens and stream of the vendor request.
transformRequestForGPT(cfg, openAIRequest) ==
    LET acc0 == [inputItems |-> <<>>, systemPrompt |-> JsNull]
        acc1 == IF Truthy(openAIRequest.messages) /\ IsArray(openAIRequest.messages)
                THEN MessagesLoopB(acc0, openAIRequest.messages.items)
                ELSE acc0
        acc2 == IF /\ acc1.inputItems = <<>> \/ ~Truthy(openAIRequest.messages)
                   /\ openAIRequest.input # Undefined
                THEN IF IsString(openAIRequest.input)
                     THEN [acc1 EXCEPT !.inputItems =
                               Append(@, MessageItemOf("user", openAIRequest.input))]
                     ELSE IF IsArray(openAIRequest.input)
                     THEN InputLoopB(acc1, openAIRequest.input.items)
                     ELSE acc1
                ELSE acc1
        acc3 == StripLoopB([acc2 EXCEPT !.inputItems = <<>>], acc2.inputItems)
    IN IF acc3.inputItems = <<>> THEN Throw(NoUsableInput)
       ELSE Return([model |-> cfg.AZURE_OPENAI_MODEL,
                    input |-> acc3.inputItems,
                    instructions |-> acc3.systemPrompt,
                    max_output_tokens |-> IF Truthy(openAIRequest.max_tokens)
                                          THEN openAIRequest.max_tokens
                                          ELSE Num(DefaultMaxOutputTokens),
                    stream |-> openAIRequest.stream])

\* getGPTChatEndpoint(): the Responses path replaced by the Chat Completions path.
getGPTChatEndpoint(cfg) ==
    IF Truthy(cfg.AZURE_OPENAI_ENDPOINT)
    THEN Str([k \in 1..Len(cfg.AZURE_OPENAI_ENDPOINT.v) |->
                 IF cfg.AZURE_OPENAI_ENDPOINT.v[k] = "/openai/responses"
                 THEN "/openai/chat/completions" ELSE cfg.AZURE_OPENAI_ENDPOINT.v[k]])
    ELSE Str(<<>>)

\* ----------------------------------------------------- the HTTP pipeline
ProtectedPaths == {"/chat/completions", "/v1/chat/completions", "/v1/messages"}

CallNext == [next |-> TRUE, status |-> 0, type |-> "none"]
Reject(status, type) == [next |-> FALSE, status |-> status, type |-> type]

\* A guard that strips every leading "Bearer " from the header.
requireAuthStripsAll(cfg, request) ==
    IF request.method = "OPTIONS" \/ request.path \in {"/health", "/"} THEN CallNext
    ELSE IF ~Truthy(cfg.SERVICE_API_KEY) THEN Reject(500, "configuration_error")
    ELSE IF ~Truthy(request.authorization) THEN Reject(401, "authentication_error")
    ELSE IF SelectSeq(request.authorization.v, LAMBDA a : a # BearerPrefix) # cfg.SERVICE_API_KEY.v
         THEN Reject(401, "authentication_error")
    ELSE CallNext

\* A guard that lets every request through when no secret is configured.
requireAuthFailOpen(cfg, request) ==
    IF request.method = "OPTIONS" \/ request.path \in {"/health", "/"} THEN CallNext
    ELSE IF ~Truthy(cfg.SERVICE_API_KEY) THEN CallNext
    ELSE IF ~Truthy(request.authorization) THEN Reject(401, "authentication_error")
    ELSE LET authHeader == request.authorization.v
             token == IF StartsWith(authHeader, <<BearerPrefix>>) THEN Drop(authHeader, 1)
                      ELSE authHeader
         IN IF token # cfg.SERVICE_API_KEY.v THEN Reject(401, "authentication_error")
            ELSE CallNext

\* requireAuth(req, res, next): next(), or the answer it sends.
requireAuth(cfg, request) ==
    IF request.method = "OPTIONS" \/ request.path \in {"/health", "/"} THEN CallNext
    ELSE IF ~Truthy(cfg.SERVICE_API_KEY) THEN Reject(500, "configuration_error")
    ELSE IF ~Truthy(request.authorization) THEN Reject(401, "authentication_error")
    ELSE LET authHeader == request.authorization.v
             token == IF StartsWith(authHeader, <<BearerPrefix>>) THEN Drop(authHeader, 1)
                      ELSE authHeader
         IN IF token # cfg.SERVICE_API_KEY.v THEN Reject(401, "authentication_error")
            ELSE CallNext

\* A check that lets every body through.
HasSourceAlways(body) == TRUE

\* !(!hasMessages && !req.body.content && !req.body.input)
HasSource(body) ==
    \/ Truthy(body.messages) /\ IsArray(body.messages)
    \/ Truthy(body.content)
    \/ Truthy(body.input)

streamVars == <<vendor, upstream, buffer, contentBlocks, currentToolCallIndex, written, sent, nLines>>

\* What a step of the pipeline leaves alone.
Frame == UNCHANGED <<streamVars, upVars, netVars, env, CONFIG, variant, srvVars>>

\* res.status(status).json({error: {type}}) (or the 200 answer of that kind).
Answer(status, type) ==
    /\ resJson' = [status |-> status, type |-> type]
    /\ resEnded' = TRUE
    /\ pc' = "done"

Pass(to) == pc' = to /\ UNCHANGED <<resJson, resEnded>>

\* The CORS middleware: OPTIONS is answered here, everything else goes on.
CorsMiddleware ==
    /\ pc = "cors"
    /\ IF req.method = "OPTIONS" THEN Answer(200, "OK") ELSE Pass("route")
    /\ UNCHANGED <<req, upstreamCalls, transformed>>
    /\ Frame

\* app.get("/")
GetRoot ==
    /\ pc = "route"
    /\ req.method = "GET" /\ req.path = "/"
    /\ Answer(200, "status")
    /\ UNCHANGED <<req, upstreamCalls, transformed>>
    /\ Frame

\* app.get("/health")
GetHealth ==
    /\ pc = "route"
    /\ req.method = "GET" /\ req.path = "/health"
    /\ Answer(200, "health")
    /\ UNCHANGED <<req, upstreamCalls, transformed>>
    /\ Frame

\* requireAuth in front of the three POST routes.
RequireAuth ==
    /\ pc = "route"
    /\ req.method = "POST" /\ req.path \in ProtectedPaths
    /\ LET verdict == requireAuth(CONFIG, req) IN
       IF verdict.next THEN Pass("handler") ELSE Answer(verdict.status, verdict.type)
    /\ UNCHANGED <<req, upstreamCalls, transformed>>
    /\ Frame

\* app.post("/v1/chat/completions"): req.url = "/chat/completions"; app.handle(req, res)
RewriteV1 ==
    /\ pc = "handler"
    /\ req.path = "/v1/chat/completions"
    /\ req' = [req EXCEPT !.path = "/chat/completions"]
    /\ Pass("cors")
    /\ UNCHANGED <<upstreamCalls, transformed>>
    /\ Frame

\* The final app.use: no route matched.
NotFound ==
    /\ pc = "route"
    /\ ~(req.method = "GET" /\ req.path \in {"/", "/health"})
    /\ ~(req.method = "POST" /\ req.path \in ProtectedPaths)
    /\ Answer(404, "not_found")
    /\ UNCHANGED <<req, upstreamCalls, transformed>>
    /\ Frame

Call(by, url, data) == [by |-> by, url |-> url, data |-> data]

\* await axios.post(...): the call is out, the handler waits for the answer.
Post(call) ==
    /\ upstreamCalls' = Append(upstreamCalls, call)
    /\ Pass("upstream")

Ran(v, result) == [ran |-> TRUE, vendor |-> v, result |-> result]

\* handleClaudeRequest(req, res) up to the upstream call.
handleClaudeRequest(body) ==
    IF ~Truthy(CONFIG.AZURE_API_KEY) \/ ~Truthy(CONFIG.AZURE_ENDPOINT)
    THEN Answer(500, "configuration_error") /\ UNCHANGED <<upstreamCalls, transformed>>
    ELSE LET anthropicRequest == transformRequestForClaude(CONFIG, body) IN
         /\ transformed' = Ran("A", anthropicRequest)
         /\ IF anthropicRequest.ok
            THEN Post(Call("handleClaudeRequest", CONFIG.AZURE_ENDPOINT, anthropicRequest.value))
            ELSE Answer(400, "transform_error") /\ UNCHANGED upstreamCalls

\* handleGPTRequest(req, res), structured variant, up to the upstream call.
handleGPTRequest(body) ==
    IF ~Truthy(CONFIG.AZURE_OPENAI_API_KEY) \/ ~Truthy(CONFIG.AZURE_OPENAI_ENDPOINT)
    THEN Answer(500, "configuration_error") /\ UNCHANGED <<upstreamCalls, transformed>>
    ELSE LET gptRequest == transformRequestForGPT(CONFIG, body) IN
         /\ transformed' = Ran("B", gptRequest)
         /\ IF gptRequest.ok
            THEN Post(Call("handleGPTRequest", CONFIG.AZURE_OPENAI_ENDPOINT, gptRequest.value))
            ELSE Answer(400, "transform_error") /\ UNCHANGED upstreamCalls

\* handleGPTRequest(req, res), pass-through variant: the body goes out as it
\* came, with the model name replaced.
handleGPTPassthrough(body) ==
    IF ~Truthy(CONFIG.AZURE_OPENAI_API_KEY) \/ ~Truthy(CONFIG.AZURE_OPENAI_ENDPOINT)
    THEN Answer(500, "configuration_error") /\ UNCHANGED <<upstreamCalls, transformed>>
    ELSE /\ Post(Call("handleGPTPassthrough", getGPTChatEndpoint(CONFIG),
                      [body EXCEPT !.model = CONFIG.AZURE_OPENAI_MODEL]))
         /\ UNCHANGED transformed

\* What the route handlers leave alone: the router's history is theirs to extend.
RouteFrame ==
    UNCHANGED <<streamVars, upVars, netVars, env, CONFIG, variant, arrivals, errorBuffer, errorMessage,
                callerClosedAt, peer>>

\* One call of isGPTModel, as the history keeps it.
Routing(modelName, useGPT) ==
    [request |-> arrivals, modelName |-> modelName, useGPT |-> useGPT]

\* app.post("/chat/completions"): route, validate, adjust image turns, dispatch.
\* A throw of the router is outside the try block: nothing answers the request.
ChatCompletions ==
    /\ pc = "handler"
    /\ req.path = "/chat/completions"
    /\ LET modelName == IF Truthy(req.body.model) THEN req.body.model ELSE Str(<<>>)
           useGPT == isGPTModel(modelName)
           body == [req.body EXCEPT !.messages = IF Truthy(@) THEN fixImageTurns(@) ELSE @]
       IN /\ routed' = Append(routed, Routing(modelName, useGPT))
          /\ IF useGPT.threw
             THEN Pass("unhandled") /\ UNCHANGED <<req, upstreamCalls, transformed>>
             ELSE IF ~HasSource(req.body)
             THEN /\ Answer(400, "invalid_request_error")
                  /\ UNCHANGED <<req, upstreamCalls, transformed>>
             ELSE /\ req' = [req EXCEPT !.body = body]
                  /\ IF ~useGPT.value THEN handleClaudeRequest(body)
                     ELSE IF variant = "structured" THEN handleGPTRequest(body)
                     ELSE handleGPTPassthrough(body)
    /\ RouteFrame

\* app.post("/v1/messages"): the body is forwarded to Vendor A untouched.  Without
\* an endpoint axios.post throws inside the try block.
Messages ==
    /\ pc = "handler"
    /\ req.path = "/v1/messages"
    /\ IF ~Truthy(CONFIG.AZURE_API_KEY) THEN Answer(500, "configuration_error") /\ UNCHANGED upstreamCalls
       ELSE IF ~Truthy(CONFIG.AZURE_ENDPOINT) THEN Answer(500, "proxy_error") /\ UNCHANGED upstreamCalls
       ELSE Post(Call("messages", CONFIG.AZURE_ENDPOINT, req.body))
    /\ UNCHANGED <<req, transformed>>
    /\ Frame

UpstreamStatuses == {200, 429}

Awaited == upstreamCalls[Len(upstreamCalls)]
isStreaming == req.body.stream = Bool(TRUE)
Transcoding == Awaited.by \in {"handleClaudeRequest", "handleGPTRequest"}

\* The body of an upstream error answer, byte by byte: {"error":{"message":"..."}}
\* between an opening and a closing atom, an object without error, or plain text.
ErrorOpen == "{error.message:\""
ErrorJson(message) == <<ErrorOpen>> \o message \o <<StringClose>>
ErrorBodies ==
    {<<>>, <<"{}">>, <<"B", "a", "d">>, ErrorJson(<<>>), ErrorJson(<<"n", "o">>),
     ErrorJson(<<LeadByte, ContByte>>)}

\* try { errorMessage = JSON.parse(errorBuffer)?.error?.message || errorBuffer; }
\* catch (e) { errorMessage = errorBuffer; }
ErrorMessageOf(text) ==
    IF /\ Len(text) > 2
       /\ text[1] = ErrorOpen
       /\ text[Len(text)] = StringClose
       /\ \A k \in 2..(Len(text) - 1) : text[k] \notin {ErrorOpen, StringClose}
    THEN Inner(text)
    ELSE text

\* The axios response, as far as the handler reads it while it drains the body.
ErrorResponse(status) == [status |-> status]

\* The upstream answers.  On the chat-completions paths an error status is
\* relayed as api_error, after the body was read when it comes as a stream; a
\* stream is handed to the re-chunker (or piped), a JSON body is transcoded (or
\* relayed).  /v1/messages leaves validateStatus alone: an error status makes
\* axios throw, and the catch block sends error.response.data through
\* res.json, which throws on a stream.
UpstreamAnswers ==
    /\ pc = "upstream"
    /\ \E status \in UpstreamStatuses :
          IF status >= 400 /\ isStreaming /\ Awaited.by # "messages"
          THEN /\ response' = ErrorResponse(status)
               /\ \E body \in ErrorBodies : wire' = body
               /\ offset' = 0
               /\ errorBuffer' = <<>>
               /\ Pass("draining")
               /\ UNCHANGED <<blockNo, phase, pending, errorMessage>>
          ELSE /\ IF status >= 400
                  THEN IF Awaited.by # "messages" THEN Answer(status, "api_error")
                       ELSE IF isStreaming THEN Pass("unhandled")
                       ELSE Answer(status, "upstream body")
                  ELSE IF isStreaming
                  THEN /\ resJson' = [status |-> status, type |-> "text/event-stream"]
                       /\ pc' = "streaming"
                       /\ UNCHANGED resEnded
                  ELSE Answer(status, IF Transcoding THEN "chat.completion" ELSE "upstream body")
               /\ UNCHANGED <<upVars, netVars, errorBuffer, errorMessage>>
    /\ UNCHANGED <<req, upstreamCalls, transformed>>
    /\ UNCHANGED <<streamVars, env, CONFIG, variant, routed, arrivals, callerClosedAt, peer>>

\* What a step of the draining leaves alone.
DrainFrame ==
    UNCHANGED <<vendor, buffer, contentBlocks, currentToolCallIndex, written, sent, nLines,
                upVars, wire, env, CONFIG, variant, req, upstreamCalls, transformed,
                routed, arrivals, callerClosedAt, peer>>

\* response.data.on("data", (chunk) => { errorBuffer += chunk.toString(); })
DrainData ==
    /\ pc = "draining"
    /\ upstream = "open"
    /\ \E n \in 1..(Len(wire) - offset) :
          /\ errorBuffer' = errorBuffer \o Utf8Decode(SubSeq(wire, offset + 1, offset + n))
          /\ offset' = offset + n
    /\ UNCHANGED <<upstream, pc, resJson, resEnded, errorMessage>>
    /\ DrainFrame

\* The promise resolves; the answer carries what the buffer gives.
Relay ==
    /\ errorMessage' = Str(ErrorMessageOf(errorBuffer))
    /\ Answer(response.status, "api_error")
    /\ UNCHANGED <<offset, errorBuffer>>
    /\ DrainFrame

\* response.data.on("end", resolve)
DrainEnd ==
    /\ pc = "draining"
    /\ upstream = "open"
    /\ offset = Len(wire)
    /\ upstream' = "ended"
    /\ Relay

\* response.data.on("error", resolve)
DrainError ==
    /\ pc = "draining"
    /\ upstream = "open"
    /\ upstream' = "errored"
    /\ Relay

\* The upstream cannot be reached: axios throws an error without a response.
UpstreamUnreachable ==
    /\ pc = "upstream"
    /\ CASE Transcoding -> Answer(503, "connection_error")
         [] Awaited.by = "handleGPTPassthrough" -> Answer(502, "proxy_error")
         [] OTHER -> Answer(500, "proxy_error")
    /\ UNCHANGED <<req, upstreamCalls, transformed>>
    /\ Frame

\* ---- the requests and configurations explored
Without(cfg, key) == [cfg EXCEPT ![key] = Undefined]

UpstreamConfigs ==
    {FullConfig} \cup {Without(FullConfig, key) :
                          key \in {"AZURE_API_KEY", "AZURE_ENDPOINT",
                                   "AZURE_OPENAI_API_KEY", "AZURE_OPENAI_ENDPOINT"}}

\* GPT_USE_CHAT_COMPLETIONS=0 in the environment.
ResponsesConfig == [FullConfig EXCEPT !.GPT_USE_CHAT_COMPLETIONS = Bool(FALSE)]

Wrong == <<"s", "3">>
AuthHeaders ==
    {Undefined, Str(<<>>), Str(Secret), Str(<<BearerPrefix>> \o Secret),
     Str(<<BearerPrefix, BearerPrefix>> \o Secret), Str(Wrong), Str(<<BearerPrefix>> \o Wrong),
     Str(<<BearerPrefix>>), Str(<<"bearer ">> \o Secret)}

UserHi == Msg("user", Str(<<"hi">>))
SystemBrief == Msg("system", Str(<<"be brief">>))
NoContent == Msg("user", Undefined)
EmptyUser == Msg("user", Str(<<>>))
AssistantOk == Msg("assistant", Str(<<"ok">>))
ImageUser == Msg("user", Arr(<<TextPart(<<"see">>), ImagePart>>))
AssistantCall ==
    [Msg("assistant", Undefined) EXCEPT
        !.tool_calls = Arr(<<ToolCall("call_1", "f", JSONStringify(ObjectA1))>>)]
ToolResult == [Msg("tool", Str(<<"42">>)) EXCEPT !.tool_call_id = Str(<<"call_1">>)]

MessageLists ==
    {<<>>, <<UserHi>>, <<SystemBrief, UserHi>>, <<NoContent>>, <<EmptyUser>>, <<SystemBrief>>,
     <<UserHi, AssistantOk, ImageUser>>, <<UserHi, AssistantCall, ToolResult>>,
     <<UserHi, AssistantOk, AssistantOk, ImageUser>>}

ModelValues ==
    {Undefined, Str(<<>>), Str(<<"Claude", "-3">>), Str(<<"GPT", "-4">>),
     Str(<<"Claude", "-", "O3">>), Str(<<"llama">>), Num(5)}
MessagesValues == {Undefined, Str(<<"x">>)} \cup {Arr(l) : l \in MessageLists}
RoleValues == {Undefined, Str(<<"user">>), Str(<<"system">>)}
ContentValues == {Undefined, Str(<<"hi">>)}
InputValues == {Undefined, Str(<<"q">>), Arr(<<>>), Arr(<<Msg("user", Str(<<"q">>))>>)}

Bodies ==
    [model : ModelValues, messages : MessagesValues, role : RoleValues,
     content : ContentValues, input : InputValues, stream : {Undefined},
     user : {Undefined}, max_tokens : {Undefined}, tools : {Undefined},
     tool_choice : {Undefined}]

EmptyBody ==
    [model |-> Undefined, messages |-> Undefined, role |-> Undefined, content |-> Undefined,
     input |-> Undefined, stream |-> Undefined, user |-> Undefined, max_tokens |-> Undefined,
     tools |-> Undefined, tool_choice |-> Undefined]
HiBody == [EmptyBody EXCEPT !.messages = Arr(<<UserHi>>)]
StreamBodies == {[HiBody EXCEPT !.stream = Bool(TRUE), !.model = m] : m \in ModelValues}

\* Any method, path and Authorization header, with a few bodies.
AnyCallers ==
    [method : {"GET", "POST", "OPTIONS"},
     path : ProtectedPaths \cup {"/", "/health", "/nowhere"},
     authorization : AuthHeaders,
     body : {EmptyBody, HiBody} \cup StreamBodies]

\* Authenticated chat-completions requests with any body.
ChatCallers ==
    [method : {"POST"},
     path : {"/chat/completions", "/v1/chat/completions"},
     authorization : {Str(<<BearerPrefix>> \o Secret)},
     body : Bodies]

InitHttp ==
    /\ InitStreaming
    /\ vendor = "A"
    /\ IdleUpstream
    /\ IdleNet
    /\ variant \in {"structured", "passthrough"}
    /\ env = NoEnv
    /\ \/ /\ CONFIG \in {FullConfig, Without(FullConfig, "SERVICE_API_KEY")}
          /\ req \in AnyCallers
       \/ /\ CONFIG \in UpstreamConfigs \cup {ResponsesConfig}
          /\ req \in ChatCallers
    /\ pc = "cors"
    /\ upstreamCalls = <<>>
    /\ transformed = NotRun
    /\ IdleServer

NextHttp ==
    \/ CorsMiddleware
    \/ GetRoot
    \/ GetHealth
    \/ RequireAuth
    \/ RewriteV1
    \/ NotFound
    \/ ChatCompletions
    \/ Messages
    \/ UpstreamAnswers
    \/ UpstreamUnreachable
    \/ DrainData
    \/ DrainEnd
    \/ DrainError

\* One request, from the first middleware to its answer.
SpecHttp == InitHttp /\ [][NextHttp]_vars

\* ---- the server, one request after the other
\* Authenticated requests to the two upstream-calling routes.
ServerModels == {Str(<<"GPT", "-4">>), Str(<<"Claude", "-3">>), Num(5)}
ServerCallers ==
    [method : {"POST"},
     path : {"/chat/completions", "/v1/messages"},
     authorization : {Str(<<BearerPrefix>> \o Secret)},
     body : {[HiBody EXCEPT !.model = m] : m \in ServerModels}]

InitServer ==
    /\ InitStreaming
    /\ vendor = "A"
    /\ IdleUpstream
    /\ IdleNet
    /\ variant \in {"structured", "passthrough"}
    /\ env = NoEnv
    /\ CONFIG \in UpstreamConfigs
    /\ req \in ServerCallers
    /\ pc = "cors"
    /\ upstreamCalls = <<>>
    /\ transformed = NotRun
    /\ routed = <<>>
    /\ arrivals = 1
    /\ errorBuffer = <<>>
    /\ errorMessage = Undefined
    /\ callerClosedAt = -1
    /\ peer = NoPeer

\* app.listen: Express hands the next request to the middleware chain.  A
\* request left without an answer holds its connection, not the server.
Arrive ==
    /\ pc \in {"done", "unhandled"}
    /\ arrivals < MaxRequests
    /\ arrivals' = arrivals + 1
    /\ req' \in ServerCallers
    /\ pc' = "cors"
    /\ resJson' = NoJson
    /\ resEnded' = FALSE
    /\ upstreamCalls' = <<>>
    /\ transformed' = NotRun
    /\ UNCHANGED <<streamVars, upVars, netVars, env, CONFIG, variant, routed, errorBuffer, errorMessage,
                   callerClosedAt, peer>>

NextServer ==
    \/ CorsMiddleware
    \/ RequireAuth
    \/ ChatCompletions
    \/ Messages
    \/ UpstreamAnswers
    \/ UpstreamUnreachable
    \/ Arrive

\* The server answering MaxRequests requests in turn.
SpecServer == InitServer /\ [][NextServer]_vars

\* ---- properties of the pipeline
ProtectedPost == req.method = "POST" /\ req.path \in ProtectedPaths

SecretConfigured == Truthy(CONFIG.SERVICE_API_KEY)

\* The Authorization header is present and, with one leading "Bearer " taken
\* off if there is one, equals the configured secret.
HeaderMatches ==
    /\ SecretConfigured
    /\ Truthy(req.authorization)
    /\ LET value == req.authorization.v IN
       (IF Head(value) = BearerPrefix THEN Tail(value) ELSE value) = CONFIG.SERVICE_API_KEY.v

PastAuth == pc \in {"handler", "upstream", "streaming", "unhandled"}

\* C7: a request transcoder runs and an upstream call is made only for a request
\* whose Authorization header matches the configured secret; with a secret
\* configured, a protected POST whose header is missing or does not match never
\* reaches a handler and is answered 401 authentication_error; OPTIONS, GET /
\* and GET /health are answered 200 whatever the header.
C7_AuthRequired ==
    /\ (transformed # NotRun \/ upstreamCalls # <<>>) => HeaderMatches
    /\ (ProtectedPost /\ SecretConfigured /\ ~HeaderMatches) =>
          /\ ~PastAuth
          /\ pc = "done" => resJson = [status |-> 401, type |-> "authentication_error"]
    /\ (req.method = "OPTIONS" \/ (req.method = "GET" /\ req.path \in {"/", "/health"})) =>
          /\ ~PastAuth
          /\ pc = "done" => resJson.status = 200

\* A protected POST carrying "Bearer " twice before the secret was turned away.
C7_Witness ==
    /\ ProtectedPost
    /\ req.authorization = Str(<<BearerPrefix, BearerPrefix>> \o Secret)
    /\ pc = "done"
    /\ resJson.status = 401
    /\ upstreamCalls = <<>>

\* The body has no messages array, no input and no content (so no role+content pair either).
NoSource(body) ==
    /\ ~IsArray(body.messages)
    /\ ~Truthy(body.input)
    /\ ~Truthy(body.content)

\* The model field is absent or a string, so that the router names a vendor.
Routable(body) == body.model = Undefined \/ IsString(body.model)

FilteredA == MessagesA(SourceA(req.body), req.body)

\* C9: a request transcoder that returns, returns at least one message (Vendor
\* A) or input item (Vendor B, structured), and so does every transcoded
\* upstream call; when Vendor A's filtering leaves no message the transcoder
\* throws; and whenever a transcoder throws, the caller gets HTTP 400 and no
\* upstream call is made.
C9_NonEmptyOrError ==
    /\ \A k \in 1..Len(upstreamCalls) :
          /\ upstreamCalls[k].by = "handleClaudeRequest" => Len(upstreamCalls[k].data.messages) >= 1
          /\ upstreamCalls[k].by = "handleGPTRequest" => Len(upstreamCalls[k].data.input) >= 1
    /\ transformed.ran =>
          /\ (transformed.result.ok /\ transformed.vendor = "A") =>
                Len(transformed.result.value.messages) >= 1
          /\ (transformed.result.ok /\ transformed.vendor = "B") =>
                Len(transformed.result.value.input) >= 1
          /\ (transformed.vendor = "A" /\ SourceA(req.body) # "none" /\ FilteredA = <<>>) =>
                transformed.result = Throw(EmptyMessageSet)
          /\ ~transformed.result.ok =>
                /\ upstreamCalls = <<>>
                /\ pc = "done"
                /\ resJson.status = 400

\* Vendor A's transcoder was given one message without content and threw.
C9_Witness ==
    /\ transformed.ran
    /\ transformed.vendor = "A"
    /\ req.body.messages = Arr(<<NoContent>>)
    /\ transformed.result = Throw(EmptyMessageSet)
    /\ resJson.status = 400
    /\ upstreamCalls = <<>>

\* The first source, in priority order, that is present and not empty.
NonEmpty(x) == Truthy(x) /\ (IsArray(x) => x.items # <<>>)

FirstNonEmptySource(body) ==
    IF IsArray(body.messages) /\ NonEmpty(body.messages) THEN "messages"
    ELSE IF Truthy(body.role) /\ Truthy(body.content) THEN "role+content"
    ELSE IF NonEmpty(body.input) THEN "input"
    ELSE IF NonEmpty(body.content) THEN "content"
    ELSE "none"

\* None of the four sources is in the body at all.
NonePresent(body) ==
    /\ body.messages = Undefined
    /\ ~(Truthy(body.role) /\ Truthy(body.content))
    /\ body.input = Undefined
    /\ body.content = Undefined

\* C10 (as claimed): Vendor A's transcoder builds its messages from the first
\* non-empty of messages, role+content, input, content, so that an empty
\* messages array falls through to the next source; it fails when there is
\* no such source, and with "Invalid request format" only when none of the
\* four is present.
C10_FirstNonEmptySource ==
    (transformed.ran /\ transformed.vendor = "A") =>
        LET source == FirstNonEmptySource(req.body) IN
        /\ source = "none" => ~transformed.result.ok
        /\ (source # "none" /\ MessagesA(source, req.body) # <<>>) =>
              /\ transformed.result.ok
              /\ transformed.result.value.messages = MessagesA(source, req.body)
        /\ transformed.result = Throw(InvalidRequestFormat) => NonePresent(req.body)

\* ------------------------- the transcoders of the single-vendor release
\* Model names are made of atoms: "gpt" \o "-4" is gpt-4.
MODEL_NAMES_TO_MAP ==
    {<<"gpt", "-4">>, <<"gpt", "-4.1">>, <<"gpt", "-4o">>, <<"claude", "-opus-4-5">>,
     <<"claude", "-4.5-opus-high">>, <<"claude", "-4-opus">>, <<"claude", "-3-opus">>,
     <<"claude", "-3-sonnet">>, <<"claude", "-3-haiku">>}

\* mapModelToDeployment(modelName), reading process.env again on every call
mapModelToDeployment(processEnv, cfg, modelName) ==
    IF ~Truthy(modelName) THEN cfg.AZURE_DEPLOYMENT_NAME
    ELSE IF IsString(modelName) /\ modelName.v \in MODEL_NAMES_TO_MAP
    THEN cfg.AZURE_DEPLOYMENT_NAME
    ELSE IF Truthy(processEnv.AZURE_DEPLOYMENT_NAME) THEN cfg.AZURE_DEPLOYMENT_NAME
    ELSE modelName

\* JSON.parse(toolCall.function.arguments) throws SyntaxError
ArgumentsThrow(arguments) ==
    /\ IsString(arguments)
    /\ ~\E o \in JsonObjects : arguments.v \in {JSONStringify(o), SpacedJson(o)}

SyntaxErrorMessage == "Unexpected token in JSON"
MissingSource == "Invalid request format: missing messages, role/content, input, or content field"

\* .filter((msg) => msg && (msg.content || msg.content === ""))
transformRequestKeep(msg) == Truthy(msg.content) \/ msg.content = Str(<<>>)

\* The .map callback of the messages branch throws: a tool call of an
\* assistant message has arguments that are not JSON, and nothing catches.
transformRequestMapThrows(msg) ==
    /\ msg.role = "assistant"
    /\ Truthy(msg.tool_calls)
    /\ IsArray(msg.tool_calls)
    /\ \E k \in 1..Len(msg.tool_calls.items) :
          ArgumentsThrow(CallArguments(msg.tool_calls.items[k]))

\* The .map callback of the input branch.
transformRequestMapInput(msg) ==
    IF msg.role = "system"
    THEN [role |-> "user",
          content |-> IF IsString(msg.content) THEN Str(<<SystemPrefix>> \o msg.content.v)
                      ELSE msg.content]
    ELSE [role |-> IF msg.role = "assistant" THEN "assistant" ELSE "user",
          content |-> msg.content]

\* anthropicMessages of transformRequest; the role+content, plain input and
\* content branches read as in transformRequestForClaude.
transformRequestMessages(source, body) ==
    CASE source = "messages" ->
           LET kept == SelectSeq(body.messages.items, transformRequestKeep)
           IN [k \in 1..Len(kept) |-> MapA(kept[k])]
      [] source = "input" /\ IsArray(body.input) ->
           LET kept == SelectSeq(body.input.items, LAMBDA msg : msg.content # Undefined)
           IN [k \in 1..Len(kept) |-> transformRequestMapInput(kept[k])]
      [] OTHER -> MessagesA(source, body)

\* transformRequest(openAIRequest)
transformRequest(processEnv, cfg, openAIRequest) ==
    LET source == SourceA(openAIRequest) IN
    IF source = "none" THEN Throw(MissingSource)
    ELSE IF /\ source = "messages"
            /\ \E k \in 1..Len(openAIRequest.messages.items) :
                  /\ transformRequestKeep(openAIRequest.messages.items[k])
                  /\ transformRequestMapThrows(openAIRequest.messages.items[k])
    THEN Throw(SyntaxErrorMessage)
    ELSE LET anthropicMessages == transformRequestMessages(source, openAIRequest) IN
         IF anthropicMessages = <<>> THEN Throw(EmptyMessageSet)
         ELSE IF ToolsThrow(openAIRequest.tools) THEN Throw(TypeErrorMessage)
         ELSE Return(AnthropicRequest(
                         mapModelToDeployment(processEnv, cfg, openAIRequest.model),
                         anthropicMessages, openAIRequest))

\* transformResponse of the single-vendor release: the same blocks and usage,
\* finish_reason: stop_reason === "tool_use" ? "tool_calls" : stop_reason, and
\* "for (const block of content)" throws on a response without content.
transformResponse(anthropicResponse) ==
    IF "content" \notin DOMAIN anthropicResponse THEN Throw("content is not iterable")
    ELSE LET textContent == TextOfBlocks(anthropicResponse.content)
             toolCalls == ToolCallsOfBlocks(anthropicResponse.content)
         IN Return([message |-> [role |-> "assistant",
                                 content |-> IF textContent # <<>> THEN textContent
                                             ELSE <<Null>>,
                                 tool_calls |-> toolCalls],
                    finish_reason |-> IF anthropicResponse.stop_reason = "tool_use"
                                      THEN "tool_calls"
                                      ELSE anthropicResponse.stop_reason,
                    usage |-> UsageOf(anthropicResponse)])

\* ------------- request transcoder, Vendor B, of the structured release
\* c.text || c.content || "" of one content part
PartTextOrContent(c) == IF "text" \in DOMAIN c /\ Truthy(c.text) THEN c.text.v ELSE <<>>

\* The text of a system message: the string, or the parts joined by newlines.
SystemTextOf(content) ==
    IF IsString(content) THEN content
    ELSE IF IsArray(content)
    THEN Str(Join([k \in 1..Len(content.items) |-> PartTextOrContent(content.items[k])], <<"\n">>))
    ELSE Str(<<>>)

\* content.filter(c => c.type === "text").map(c => c.text).join("\n")
TextPartsOf(content) ==
    LET texts == SelectSeq(content.items, LAMBDA c : c.type = "text")
    IN Str(Join([k \in 1..Len(texts) |-> texts[k].text.v], <<"\n">>))

\* One iteration of "for (const msg of messages)".
MessageStepResponses(acc, msg) ==
    IF msg.role = "system"
    THEN [acc EXCEPT !.systemPrompt = AddSystem(@, SystemTextOf(msg.content))]
    ELSE IF msg.role = "user"
    THEN IF IsString(msg.content)
         THEN [acc EXCEPT !.inputItems = Append(@, MessageItemOf("user", msg.content))]
         ELSE IF IsArray(msg.content) /\ Truthy(TextPartsOf(msg.content))
         THEN [acc EXCEPT !.inputItems = Append(@, MessageItemOf("user", TextPartsOf(msg.content)))]
         ELSE acc
    ELSE IF msg.role = "assistant"
    THEN [acc EXCEPT !.inputItems =
              @ \o (IF Truthy(msg.tool_calls) /\ IsArray(msg.tool_calls)
                    THEN [k \in 1..Len(msg.tool_calls.items) |->
                             FunctionCallOf(msg.tool_calls.items[k])]
                    ELSE <<>>)
                \o (IF Truthy(msg.content) THEN <<MessageItemOf("assistant", msg.content)>>
                    ELSE <<>>)]
    ELSE IF msg.role = "tool"
    THEN [acc EXCEPT !.inputItems =
              Append(@, [type |-> "function_call_output", call_id |-> msg.tool_call_id,
                         output |-> IF IsString(msg.content) THEN msg.content
                                    ELSE JSONStringifyContent(msg.content)])]
    ELSE acc

\* One iteration of "for (const item of input)": the item keeps its own role.
InputStepResponses(acc, item) ==
    IF item.role # "" /\ Truthy(item.content)
    THEN [acc EXCEPT !.inputItems = Append(@, MessageItemOf(item.role, item.content))]
    ELSE acc

RECURSIVE MessagesLoopResponses(_, _)
MessagesLoopResponses(acc, s) ==
    IF s = <<>> THEN acc
    ELSE MessagesLoopResponses(MessageStepResponses(acc, Head(s)), Tail(s))

RECURSIVE InputLoopResponses(_, _)
InputLoopResponses(acc, s) ==
    IF s = <<>> THEN acc
    ELSE InputLoopResponses(InputStepResponses(acc, Head(s)), Tail(s))

\* transformRequestForGPT(openAIRequest) of the structured release: model,
\* input, instructions, max_output_tokens and stream of the vendor request.
transformRequestForGPTResponses(cfg, openAIRequest) ==
    LET acc0 == [inputItems |-> <<>>, systemPrompt |-> JsNull]
        acc1 == IF Truthy(openAIRequest.messages) /\ IsArray(openAIRequest.messages)
                THEN MessagesLoopResponses(acc0, openAIRequest.messages.items)
                ELSE acc0
        acc2 == IF /\ acc1.inputItems = <<>> \/ ~Truthy(openAIRequest.messages)
                   /\ openAIRequest.input # Undefined
                THEN IF IsString(openAIRequest.input)
                     THEN [acc1 EXCEPT !.inputItems =
                               Append(@, MessageItemOf("user", openAIRequest.input))]
                     ELSE IF IsArray(openAIRequest.input)
                     THEN InputLoopResponses(acc1, openAIRequest.input.items)
                     ELSE acc1
                ELSE acc1
    IN IF acc2.inputItems = <<>> THEN Throw(NoUsableInput)
       ELSE Return([model |-> cfg.AZURE_OPENAI_MODEL,
                    input |-> acc2.inputItems,
                    instructions |-> acc2.systemPrompt,
                    max_output_tokens |-> IF Truthy(openAIRequest.max_tokens)
                                          THEN openAIRequest.max_tokens
                                          ELSE Num(DefaultMaxTokens),
                    stream |-> openAIRequest.stream])

\* ------------------------------------------- the transcoders on their own
\* process.env with and without a deployment name, and the CONFIG built from it.
DeployedEnv == [AZURE_DEPLOYMENT_NAME |-> Str(<<"claude", "-prod">>)]
Envs == {NoEnv, DeployedEnv}

\* AZURE_DEPLOYMENT_NAME: process.env.AZURE_DEPLOYMENT_NAME || "claude-opus-4-5"
ConfigOf(processEnv) ==
    [FullConfig EXCEPT !.AZURE_DEPLOYMENT_NAME =
        IF Truthy(processEnv.AZURE_DEPLOYMENT_NAME) THEN processEnv.AZURE_DEPLOYMENT_NAME
        ELSE Str(<<"claude-opus-4-5">>)]

\* ---- the request bodies handed to the request transcoders
Developer == Msg("developer", Str(<<"dev">>))
SystemLate == Msg("system", Str(<<"be kind">>))
NotJson == <<"{oops">>

\* An assistant turn with text and two calls, the second in the flat shape.
AssistantTextCalls ==
    [Msg("assistant", Str(<<"ok">>)) EXCEPT
        !.tool_calls = Arr(<<ToolCall("call_1", "f", SpacedJson(ObjectA1B2)),
                             FlatToolCall("call_2", "g")>>)]

\* An assistant turn whose first call carries arguments that are not JSON.
AssistantBadCall ==
    [Msg("assistant", Str(<<"ok">>)) EXCEPT
        !.tool_calls = Arr(<<ToolCall("call_1", "f", NotJson),
                             ToolCall("call_2", "g", JSONStringify(EmptyObject))>>)]

ListedModel == Str(<<"gpt", "-4">>)
UnlistedModel == Str(<<"my-model">>)

ModelBodies ==
    {[HiBody EXCEPT !.model = m, !.max_tokens = x] :
        m \in {Undefined, ListedModel, UnlistedModel}, x \in {Undefined, Num(100), Num(0)}}

ToolsValues ==
    {Undefined, Arr(<<>>),
     Arr(<<FunctionTool("f", Schema("x")), FlatTool("g")>>),
     Arr(<<FlatTool("g"), FunctionTool("f", Undefined)>>),
     Arr(<<FunctionTool("f", Undefined), BrokenTool>>)}

ToolChoiceValues ==
    {Undefined, Str(<<"auto">>), Str(<<"none">>), Str(<<"required">>), Str(<<"any">>),
     NamedChoice("f"), ChoiceObject(Undefined)}

ToolBodies == {[HiBody EXCEPT !.tools = t, !.tool_choice = c] : t \in ToolsValues, c \in ToolChoiceValues}

\* The result of a call in the older "function" role.
FunctionResult == [Msg("function", Str(<<"42">>)) EXCEPT !.tool_call_id = Str(<<"call_2">>)]

CallLists ==
    {<<UserHi, AssistantCall, ToolResult>>, <<UserHi, AssistantTextCalls, ToolResult>>,
     <<UserHi, AssistantBadCall, ToolResult>>,
     <<UserHi, AssistantTextCalls, ToolResult, FunctionResult, UserHi>>}

CallBodies == {[EmptyBody EXCEPT !.messages = Arr(l)] : l \in CallLists}

SystemLists ==
    {<<SystemBrief, UserHi>>, <<SystemBrief, UserHi, SystemLate>>, <<Developer, UserHi>>,
     <<SystemBrief, Developer, UserHi>>, <<UserHi, AssistantOk, ImageUser>>}

SystemInputs ==
    {Str(<<"q">>), Arr(<<UserHi>>), Arr(<<SystemBrief, UserHi>>),
     Arr(<<Developer, UserHi, SystemLate>>), Arr(<<SystemBrief>>)}

SystemBodies ==
    {[EmptyBody EXCEPT !.messages = Arr(l)] : l \in SystemLists}
    \cup {[EmptyBody EXCEPT !.input = i] : i \in SystemInputs}

\* The request shapes other than a messages array: a role and content pair, a
\* scalar input with and without a user field, a scalar content.
ShapeBodies ==
    {[EmptyBody EXCEPT !.role = Str(<<r>>), !.content = Str(<<"hi">>)] :
        r \in {"user", "system", "assistant", "tool"}}
    \cup {[EmptyBody EXCEPT !.input = Str(<<"q">>), !.user = u] : u \in {Undefined, Str(<<"alice">>)}}
    \cup {[EmptyBody EXCEPT !.content = Str(<<"hi">>)]}

TranscodeCallers ==
    [method : {"POST"},
     path : {"/chat/completions"},
     authorization : {Str(<<BearerPrefix>> \o Secret)},
     body : ModelBodies \cup ToolBodies \cup CallBodies \cup SystemBodies \cup ShapeBodies]

\* ---- the vendor responses handed to the response transcoders
StopReasons == {"end_turn", "tool_use", "max_tokens"}

\* The usage a vendor reports: both counts, both counts and a total of its
\* own, one count only, a total only.
Usages ==
    {[input_tokens |-> 3, output_tokens |-> 2],
     [input_tokens |-> 3, output_tokens |-> 2, total_tokens |-> 9],
     [input_tokens |-> 3],
     [total_tokens |-> 9]}

VendorResponsesA ==
    {[content |-> c, stop_reason |-> s, usage |-> u] :
        c \in ContentsA, s \in StopReasons, u \in Usages}
    \cup {[content |-> c, stop_reason |-> "end_turn"] : c \in ContentsA}
    \cup {[stop_reason |-> s, usage |-> u] : s \in StopReasons, u \in Usages}

HiMessage == OutputMessage(Arr(<<OutputText(<<"h", "i">>)>>))
PartsMessage == OutputMessage(Arr(<<OutputText(<<"h">>), Refusal, OutputText(<<"i">>)>>))
StringMessage == OutputMessage(Str(<<"h", "i">>))
CallWithCallId == OutputCall(Str(<<"call_1">>), Str(<<"fc_1">>), "f", Str(JSONStringify(ObjectA1)))
CallWithId == OutputCall(Undefined, Str(<<"fc_2">>), "g", Str(JSONStringify(EmptyObject)))
CallWithout == OutputCall(Undefined, Undefined, "h", Undefined)

OutputsB ==
    {<<>>, <<HiMessage>>, <<PartsMessage>>, <<StringMessage>>, <<Reasoning, HiMessage>>,
     <<CallWithCallId>>, <<Reasoning, CallWithId>>, <<CallWithout>>,
     <<HiMessage, CallWithCallId, CallWithout>>, <<CallWithout, CallWithId, StringMessage>>,
     <<CallWithId, CallWithCallId>>}

VendorResponsesB ==
    {[output |-> o, usage |-> u] : o \in OutputsB, u \in Usages}
    \cup {[output |-> o] : o \in OutputsB}
    \cup {[usage |-> u] : u \in Usages}

\* Date.now() when a call id is made up
Clock == {"1700000000000", "1700000000001"}

\* ---- one call of one transcoder
Did(by, v, result) == [ran |-> TRUE, vendor |-> v, by |-> by, result |-> result]

Transcode(by, v, result) ==
    /\ transformed' = Did(by, v, result)
    /\ pc' = "done"
    /\ UNCHANGED <<rcVars, upVars, netVars, env, CONFIG, variant, req, upstreamCalls, srvVars>>

TransformRequest ==
    /\ pc = "request"
    /\ Transcode("transformRequest", "A", transformRequest(env, CONFIG, req.body))

TransformRequestForClaude ==
    /\ pc = "request"
    /\ Transcode("transformRequestForClaude", "A", transformRequestForClaude(CONFIG, req.body))

TransformRequestForGPT ==
    /\ pc = "request"
    /\ Transcode("transformRequestForGPT", "B", transformRequestForGPT(CONFIG, req.body))

TransformRequestForGPTResponses ==
    /\ pc = "request"
    /\ Transcode("transformRequestForGPTResponses", "B",
                 transformRequestForGPTResponses(CONFIG, req.body))

TransformResponse ==
    /\ pc = "response"
    /\ vendor = "A"
    /\ Transcode("transformResponse", "A", transformResponse(response))

TransformClaudeResponse ==
    /\ pc = "response"
    /\ vendor = "A"
    /\ Transcode("transformClaudeResponse", "A", Return(transformClaudeResponse(response)))

TransformGPTResponse ==
    /\ pc = "response"
    /\ vendor = "B"
    /\ \E now \in Clock :
          Transcode("transformGPTResponse", "B", Return(transformGPTResponse(response, now)))

InitTranscode ==
    /\ InitStreaming
    /\ IdleNet
    /\ blockNo = 0
    /\ phase = "idle"
    /\ pending = <<>>
    /\ variant = "structured"
    /\ upstreamCalls = <<>>
    /\ transformed = NotRun
    /\ IdleServer
    /\ \/ /\ pc = "request"
          /\ vendor = "A"
          /\ env \in Envs
          /\ req \in TranscodeCallers
          /\ response = Null
       \/ /\ pc = "response"
          /\ env = NoEnv
          /\ req = NoRequest
          /\ \/ vendor = "A" /\ response \in VendorResponsesA
             \/ vendor = "B" /\ response \in VendorResponsesB
    /\ CONFIG = ConfigOf(env)

NextTranscode ==
    \/ TransformRequest
    \/ TransformRequestForClaude
    \/ TransformRequestForGPT
    \/ TransformRequestForGPTResponses
    \/ TransformResponse
    \/ TransformClaudeResponse
    \/ TransformGPTResponse

\* One transcoder applied to one input.
SpecTranscode == InitTranscode /\ [][NextTranscode]_vars

\* ---- properties of the transcoders
\* A Vendor A request transcoder ran and returned the vendor request.
ReturnedBy(by) == transformed.ran /\ transformed.by = by /\ transformed.result.ok
ReturnedRequestA == ReturnedBy("transformRequest") \/ ReturnedBy("transformRequestForClaude")

\* C11 (as claimed): every request built for Vendor A names the configured
\* deployment as its model, whatever model the caller asked for and whatever
\* the configuration, and carries the caller's max_tokens when the caller gave
\* one and 8192 when not.
C11_FixedDeploymentName ==
    ReturnedRequestA =>
        /\ transformed.result.value.model = CONFIG.AZURE_DEPLOYMENT_NAME
        /\ transformed.result.value.max_tokens =
              (IF req.body.max_tokens # Undefined THEN req.body.max_tokens
               ELSE Num(DefaultMaxTokens))

\* The name under which a tool of the request is forwarded.
NameOfTool(tool) == IF tool.type = "function" THEN tool.function.name ELSE tool.name

\* C12: Vendor A's request transcoder turns tool_choice "auto" into {type:
\* "auto"}, "required" into {type: "any"} and an object naming a function into
\* {type: "tool", name}; with "none" the request carries no tools key even when
\* the caller sent tools; with any other tool_choice, or none, a non-empty
\* tools array goes out with the same length and the same tools in the same
\* order.
C12_ToolChoiceMapping ==
    ReturnedRequestA =>
        LET tool_choice == req.body.tool_choice
            tools == req.body.tools
            out == transformed.result.value
        IN /\ tool_choice = Str(<<"auto">>) => out.tool_choice = [type |-> "auto"]
           /\ tool_choice = Str(<<"required">>) => out.tool_choice = [type |-> "any"]
           /\ tool_choice = NamedChoice("f") =>
                 out.tool_choice = [type |-> "tool", name |-> Str(<<"f">>)]
           /\ tool_choice = Str(<<"none">>) => out.tools = Undefined
           /\ (tool_choice # Str(<<"none">>) /\ HasTools(tools)) =>
                 /\ IsArray(out.tools)
                 /\ Len(out.tools.items) = Len(tools.items)
                 /\ \A k \in 1..Len(tools.items) :
                       out.tools.items[k].name = NameOfTool(tools.items[k])

\* tool_choice "none" came with two tools, and the request went out without them.
C12_Witness ==
    /\ ReturnedBy("transformRequestForClaude")
    /\ req.body.tool_choice = Str(<<"none">>)
    /\ HasTools(req.body.tools)
    /\ Len(req.body.tools.items) = 2
    /\ transformed.result.value.tools = Undefined

\* The assistant messages of the request that carry tool calls.
HasCalls(msg) ==
    msg.role = "assistant" /\ Truthy(msg.tool_calls) /\ IsArray(msg.tool_calls)

\* What the claim expects for such a message: the text, if any, then one
\* tool_use block per call.
ExpectedInput(arguments) ==
    LET parsed == {o \in JsonObjects :
                      IsString(arguments) /\ arguments.v \in {JSONStringify(o), SpacedJson(o)}}
    IN IF parsed = {} THEN EmptyObject ELSE CHOOSE o \in parsed : TRUE

ExpectedName(call) == IF call.function # Undefined THEN call.function.name ELSE call.name

ExpectedTurn(msg) ==
    [role |-> "assistant",
     content |-> Arr((IF Truthy(msg.content) THEN <<[type |-> "text", text |-> msg.content]>>
                      ELSE <<>>)
                     \o [k \in 1..Len(msg.tool_calls.items) |->
                            [type |-> "tool_use",
                             id |-> msg.tool_calls.items[k].id,
                             name |-> ExpectedName(msg.tool_calls.items[k]),
                             input |-> ExpectedInput(CallArguments(msg.tool_calls.items[k]))]])]

RanRequestA ==
    transformed.ran /\ transformed.by \in {"transformRequest", "transformRequestForClaude"}

\* C13 (as claimed): an assistant message with tool_calls becomes one assistant
\* turn: a text block exactly when the message has content, then one tool_use
\* block per call, in order, with the call's id and name; arguments that are
\* not JSON give the input {} and the request is still transcoded.
C13_ToolCallsToToolUse ==
    (RanRequestA /\ IsArray(req.body.messages)) =>
        \A i \in 1..Len(req.body.messages.items) :
            HasCalls(req.body.messages.items[i]) =>
                /\ transformed.result.ok
                /\ Cardinality({j \in 1..Len(transformed.result.value.messages) :
                                   transformed.result.value.messages[j].role = "assistant"}) = 1
                /\ \E j \in 1..Len(transformed.result.value.messages) :
                      transformed.result.value.messages[j]
                          = ExpectedTurn(req.body.messages.items[i])

\* A Vendor B request transcoder ran and returned the vendor request.
ReturnedRequestB ==
    ReturnedBy("transformRequestForGPT") \/ ReturnedBy("transformRequestForGPTResponses")

\* The messages or input items the caller supplied, in order.
Supplied(body) ==
    IF IsArray(body.messages) THEN body.messages.items
    ELSE IF IsArray(body.input) THEN body.input.items
    ELSE <<>>

\* The texts of the system and developer messages among them, in order.
SystemTexts(body) ==
    LET system == SelectSeq(Supplied(body), LAMBDA msg : msg.role \in {"system", "developer"})
    IN [k \in 1..Len(system) |-> textFromParts(system[k].content).v]

InstructionsOf(gptRequest) ==
    IF Truthy(gptRequest.instructions) THEN gptRequest.instructions.v ELSE <<>>

\* C14 (as claimed): whatever the caller sent, as messages or as input, no item
\* of the request built for Vendor B has role system or developer, and the
\* instructions are the system and developer texts, in the order they came,
\* joined by newlines.
C14_SystemFoldedIntoInstructions ==
    ReturnedRequestB =>
        /\ \A k \in 1..Len(transformed.result.value.input) :
              transformed.result.value.input[k].type = "message" =>
                  transformed.result.value.input[k].role \notin {"system", "developer"}
        /\ InstructionsOf(transformed.result.value) = Join(SystemTexts(req.body), <<"\n">>)

\* C15 (as claimed): the body the pass-through handler posts to Vendor B is the
\* body the caller sent with the model replaced by the configured one, and
\* nothing else added, dropped or changed; req is the request on arrival at
\* the handler, upstreamCalls' holds the call the handler made.
C15_PassthroughVerbatim ==
    [][(/\ pc = "handler"
        /\ Len(upstreamCalls') = 1
        /\ upstreamCalls'[1].by = "handleGPTPassthrough")
       => upstreamCalls'[1].data = [req.body EXCEPT !.model = CONFIG.AZURE_OPENAI_MODEL]]_vars

\* C16 (as claimed): which of the two Vendor B handlers serves a request
\* follows from the configuration: the pass-through one when
\* GPT_USE_CHAT_COMPLETIONS is set, the structured one when it is not.
C16_ModeFollowsConfiguration ==
    \A k \in 1..Len(upstreamCalls) :
        upstreamCalls[k].by \in {"handleGPTRequest", "handleGPTPassthrough"} =>
            (upstreamCalls[k].by = "handleGPTPassthrough"
                <=> CONFIG.GPT_USE_CHAT_COMPLETIONS = Bool(TRUE))

\* A Vendor A response transcoder ran and returned the chat completion.
ReturnedResponseA == ReturnedBy("transformResponse") \/ ReturnedBy("transformClaudeResponse")

\* C17 (as claimed): Vendor A's stop_reason tool_use becomes finish_reason
\* tool_calls, end_turn becomes stop, and any other value is passed on.
C17_StopReasonMapping ==
    ReturnedResponseA =>
        transformed.result.value.finish_reason =
            (CASE response.stop_reason = "tool_use" -> "tool_calls"
               [] response.stop_reason = "end_turn" -> "stop"
               [] OTHER -> response.stop_reason)

\* A count the vendor reported, 0 when it reported none.
Reported(field) ==
    IF "usage" \in DOMAIN response /\ field \in DOMAIN response.usage
    THEN response.usage[field] ELSE 0

ReturnedResponse == ReturnedResponseA \/ ReturnedBy("transformGPTResponse")

\* C18: in every chat completion a response transcoder returns, prompt_tokens
\* and completion_tokens are the vendor's input_tokens and output_tokens (0
\* when the vendor reported none) and total_tokens is their sum, whatever total
\* the vendor reported.
C18_TotalIsSum ==
    ReturnedResponse =>
        LET usage == transformed.result.value.usage
        IN /\ usage.prompt_tokens = Reported("input_tokens")
           /\ usage.completion_tokens = Reported("output_tokens")
           /\ usage.total_tokens = usage.prompt_tokens + usage.completion_tokens

\* The vendor reported a total that is not the sum of its counts, and the
\* chat completion carries the sum.
C18_Witness ==
    /\ ReturnedBy("transformGPTResponse")
    /\ "usage" \in DOMAIN response
    /\ DOMAIN response.usage = {"input_tokens", "output_tokens", "total_tokens"}
    /\ response.usage.total_tokens # response.usage.input_tokens + response.usage.output_tokens
    /\ transformed.result.value.usage.total_tokens
          = response.usage.input_tokens + response.usage.output_tokens

\* The function_call items of the vendor's output, in order.
FunctionCalls ==
    IF "output" \in DOMAIN response
    THEN SelectSeq(response.output, LAMBDA item : item.type = "function_call")
    ELSE <<>>

\* C19: Vendor B's response transcoder reports finish_reason tool_calls exactly
\* when the output holds a function_call item, and stop otherwise;
\* message.tool_calls is there in exactly that case, one entry per
\* function_call item in output order, each with a non-empty id: the item's
\* call_id, else its id, else one made up.
C19_ToolCallsIffFunctionCall ==
    ReturnedBy("transformGPTResponse") =>
        LET out == transformed.result.value IN
        /\ out.finish_reason = (IF Len(FunctionCalls) >= 1 THEN "tool_calls" ELSE "stop")
        /\ Len(out.message.tool_calls) = Len(FunctionCalls)
        /\ \A k \in 1..Len(FunctionCalls) :
              /\ out.message.tool_calls[k].function.name = FunctionCalls[k].name
              /\ IsString(out.message.tool_calls[k].id)
              /\ out.message.tool_calls[k].id.v # <<>>
              /\ Truthy(FunctionCalls[k].call_id) =>
                    out.message.tool_calls[k].id = FunctionCalls[k].call_id
              /\ (~Truthy(FunctionCalls[k].call_id) /\ Truthy(FunctionCalls[k].id)) =>
                    out.message.tool_calls[k].id = FunctionCalls[k].id

\* The output held a message and two function calls, the second without
\* call_id and id, and the transcoder made up its id.
C19_Witness ==
    /\ ReturnedBy("transformGPTResponse")
    /\ "output" \in DOMAIN response
    /\ response.output = <<HiMessage, CallWithCallId, CallWithout>>
    /\ transformed.result.value.finish_reason = "tool_calls"
    /\ Len(transformed.result.value.message.tool_calls) = 2
    /\ transformed.result.value.message.tool_calls[2].id.v[1] = CallPrefix

\* The blocks of one type of the vendor's content, in order.
BlocksOfType(type) ==
    IF "content" \in DOMAIN response
    THEN SelectSeq(response.content, LAMBDA block : block.type = type)
    ELSE <<>>

TextBlocksJoined == Concat([k \in 1..Len(BlocksOfType("text")) |-> BlocksOfType("text")[k].text])

\* C20: in the chat completion Vendor A's response transcoder returns,
\* message.content is the text of the text blocks run together in block order,
\* null when there is none; message.tool_calls has one entry per tool_use
\* block, in order, with the block's id and name; and a response of text
\* blocks only that stopped with end_turn has finish_reason stop and
\* total_tokens input_tokens + output_tokens.
C20_TextAndToolCalls ==
    ReturnedBy("transformClaudeResponse") =>
        LET out == transformed.result.value IN
        /\ out.message.content = (IF TextBlocksJoined # <<>> THEN TextBlocksJoined ELSE <<Null>>)
        /\ Len(out.message.tool_calls) = Len(BlocksOfType("tool_use"))
        /\ \A k \in 1..Len(BlocksOfType("tool_use")) :
              /\ out.message.tool_calls[k].id = BlocksOfType("tool_use")[k].id
              /\ out.message.tool_calls[k].function.name = BlocksOfType("tool_use")[k].name
        /\ (/\ BlocksOfType("text") # <<>>
            /\ BlocksOfType("tool_use") = <<>>
            /\ response.stop_reason = "end_turn") =>
              /\ out.finish_reason = "stop"
              /\ out.usage.total_tokens = Reported("input_tokens") + Reported("output_tokens")

\* Two text blocks stopped by end_turn came back as one text.
C20_Witness ==
    /\ ReturnedBy("transformClaudeResponse")
    /\ "content" \in DOMAIN response
    /\ Len(response.content) = 2
    /\ BlocksOfType("tool_use") = <<>>
    /\ response.stop_reason = "end_turn"
    /\ transformed.result.value.message.content = <<"h", "i", "h", "i">>
    /\ transformed.result.value.finish_reason = "stop"

\* ---- the model router and the image-turn adjustment
\* The lower-cased name holds one of the words gpt, openai, codex, o1, o3.
NamesGpt(modelName) ==
    /\ IsString(modelName)
    /\ \E k \in 1..Len(modelName.v) :
          LowerAtom(modelName.v[k]) \in {"gpt", "openai", "codex", "o1", "o3"}

RoutableName(modelName) == IsString(modelName) \/ ~Truthy(modelName)

OnChatRoute == req # NoRequest /\ req.path = "/chat/completions"

\* C21: a chat-completions request goes to the GPT handler exactly when the
\* lower-cased model name holds one of gpt, openai, codex, o1, o3; an absent or
\* empty name and a name without a GPT word go to the Claude handler, and a
\* name with both a GPT and a Claude word goes to the GPT handler.
C21_GptNamesGoToGpt ==
    /\ \A i \in DOMAIN routed :
          RoutableName(routed[i].modelName) =>
             /\ ~routed[i].useGPT.threw
             /\ routed[i].useGPT.value <=> NamesGpt(routed[i].modelName)
    /\ OnChatRoute /\ pc = "upstream" =>
          /\ NamesGpt(req.body.model) => Awaited.by \in {"handleGPTRequest", "handleGPTPassthrough"}
          /\ ~NamesGpt(req.body.model) => Awaited.by = "handleClaudeRequest"

C21_Witness ==
    /\ OnChatRoute
    /\ pc = "upstream"
    /\ req.body.model = Str(<<"Claude", "-", "O3">>)
    /\ Awaited.by = "handleGPTPassthrough"
    /\ Len(routed) = 1

C23_RouterNeverRaises ==
    /\ \A i \in DOMAIN routed : ~routed[i].useGPT.threw
    /\ pc # "unhandled"

\* The messages of the request once the handler has called its upstream.
ForwardedMessages == req.body.messages.items

\* C24 (as claimed): in the list that is transcoded or forwarded, no message with an
\* image_url part comes right after an assistant message.
C24_NoAssistantBeforeImage ==
    OnChatRoute /\ upstreamCalls # <<>> /\ IsArray(req.body.messages) =>
       \A k \in 2..Len(ForwardedMessages) :
          HasImage(ForwardedMessages[k]) => ForwardedMessages[k - 1].role # "assistant"

\* ---- error answers
EnvelopeTypes ==
    {"configuration_error", "authentication_error", "invalid_request_error", "transform_error",
     "connection_error", "api_error", "proxy_error", "not_found"}

\* C25 (as claimed): every JSON answer with an error status carries one of the
\* eight types of the error envelope.
C25_ErrorEnvelope == resJson.status >= 400 => resJson.type \in EnvelopeTypes

\* C26 (as claimed): when the outbound call fails without an upstream answer,
\* the caller gets 503 connection_error, whichever handler made the call.
C26_UnreachableIs503 ==
    [][UpstreamUnreachable => resJson' = [status |-> 503, type |-> "connection_error"]]_vars

\* The settings the upstream of the current request needs.
RequiredSettings ==
    IF req.path = "/v1/messages" \/ ~NamesGpt(req.body.model)
    THEN {"AZURE_API_KEY", "AZURE_ENDPOINT"}
    ELSE {"AZURE_OPENAI_API_KEY", "AZURE_OPENAI_ENDPOINT"}

\* C27 (as claimed): a request whose upstream lacks its endpoint or its key is
\* answered 500 configuration_error and no upstream call is made for it.
C27_MissingSettingAnswered ==
    (req # NoRequest /\ pc = "done" /\ \E k \in RequiredSettings : ~Truthy(CONFIG[k])) =>
        /\ resJson = [status |-> 500, type |-> "configuration_error"]
        /\ upstreamCalls = <<>>

\* C28 (as claimed): a Vendor A response without a list of content blocks makes
\* the response transcoder throw, which the handler answers 500 transform_error.
C28_MalformedPayloadThrows ==
    (/\ transformed.ran
     /\ transformed.by = "transformClaudeResponse"
     /\ "content" \notin DOMAIN response) => ~transformed.result.ok

\* The text of the body as far as the upstream got it through.
ReceivedText == Utf8Decode(SubSeq(wire, 1, offset))

\* The error message of a body: error.message of the JSON when there is one,
\* the text itself when not.
UpstreamMessage(text) ==
    IF Len(text) > 2 /\ text = ErrorJson(Inner(text)) THEN Inner(text) ELSE text

\* C29 (as claimed): while the body of an upstream error answer to a streaming
\* request is read, nothing is sent; once it has ended or broken, one JSON
\* answer goes out with the upstream's status, type api_error and the
\* upstream's message, and no SSE chunk is written.
C29_DrainedThenRelayed ==
    /\ pc = "draining" => resJson = NoJson /\ ~resEnded /\ written = <<>>
    /\ errorMessage # Undefined =>
          /\ pc = "done"
          /\ upstream \in {"ended", "errored"}
          /\ resJson = [status |-> response.status, type |-> "api_error"]
          /\ resEnded
          /\ written = <<>>
          /\ errorMessage = Str(UpstreamMessage(ReceivedText))

\* C30: when the upstream stream breaks while an answer is streamed, the
\* response is ended; if a chunk had been written no status is sent any more,
\* if none had been written the caller gets a JSON error; and nothing is
\* written after the break.
C30_StreamErrorEndsResponse ==
    /\ [](upstream = "errored" =>
            /\ resEnded
            /\ written # <<>> => resJson = NoJson
            /\ written = <<>> => resJson.status = 500 /\ resJson.type = "stream_error")
    /\ [][upstream = "errored" => written' = written]_vars

C30_Witness ==
    /\ upstream = "errored"
    /\ vendor = "B"
    /\ written # <<>>
    /\ resEnded
    /\ resJson = NoJson

\* ---- the end of a streamed response
\* C31 (as claimed): once the caller's connection has closed, the upstream
\* stream is not read on to its own end.
C31_UpstreamTornDown ==
    ~(callerClosedAt >= 0 /\ upstream = "ended" /\ nLines > callerClosedAt)

\* ---- upstream calls
\* C32 (as claimed): a request makes at most one upstream call, and a call that
\* failed is followed by an answer to the caller, never by a second call.
C32_NoRetryFailureSurfaced ==
    /\ Len(upstreamCalls) <= 1
    /\ upstreamCalls # <<>> => pc \in {"upstream", "draining", "streaming", "done"}
    /\ (upstreamCalls # <<>> /\ pc = "done") => resEnded /\ resJson # NoJson

IsVendorEvent(line) ==
    IsDataLine(line) /\ Payload(line) # DoneLiteral /\ JSONParse(Payload(line)) # ParseError

\* C34 (as claimed): every vendor event parsed from the upstream yields exactly
\* one outbound chunk.
C34_OneChunkPerEvent ==
    Len(written) = Cardinality({n \in 1..Len(sent) : IsVendorEvent(sent[n])})

\* The kinds of the chunks one upstream line gives rise to, in order.
KindsOfEventA(event) ==
    IF event.type = "content_block_start"
    THEN IF event.content_block.type = "tool_use" THEN <<"tool_calls">> ELSE <<>>
    ELSE IF event.type = "content_block_delta"
    THEN IF event.delta.type = "text_delta" THEN <<"content">>
         ELSE IF event.delta.type = "input_json_delta" THEN <<"tool_calls">>
         ELSE <<>>
    ELSE IF event.type = "message_stop" THEN <<"empty", "[DONE]">>
    ELSE <<>>

KindsOfEventB(event) ==
    IF event.type = "response.output_item.added"
    THEN IF event.item.type = "function_call" THEN <<"tool_calls">> ELSE <<>>
    ELSE IF event.type \in {"response.output_text.delta", "response.text.delta"} THEN <<"content">>
    ELSE IF event.type = "response.function_call_arguments.delta" THEN <<"tool_calls">>
    ELSE IF event.type \in {"response.done", "response.completed"} THEN <<"empty", "[DONE]">>
    ELSE IF event.type = "content_block_delta"
    THEN IF "text" \in DOMAIN event.delta /\ event.delta.text # <<>> THEN <<"content">> ELSE <<>>
    ELSE <<>>

KindsOfLine(line) ==
    IF ~IsDataLine(line) THEN <<>>
    ELSE IF Payload(line) = DoneLiteral THEN <<"[DONE]">>
    ELSE IF ~IsVendorEvent(line) THEN <<>>
    ELSE IF vendor = "A" THEN KindsOfEventA(JSONParse(Payload(line)))
    ELSE KindsOfEventB(JSONParse(Payload(line)))

\* C34 (amended): each upstream line yields the chunks of its event, none, one
\* or two, and the chunks written are those of the lines in the order of the
\* lines, with nothing held back.
C34_ChunksFollowEvents ==
    [k \in 1..Len(written) |-> written[k].kind]
        = Concat([n \in 1..Len(sent) |-> KindsOfLine(sent[n])])

C34_Witness ==
    /\ vendor = "A"
    /\ nLines = 3
    /\ sent[1] = DataLine("A:start0X")
    /\ sent[2] = DataLine("A:stop0")
    /\ sent[3] = DataLine("A:message_stop")
    /\ Len(written) = 3
    /\ written[3] = DoneMarker

\* ---- the tool-call counter of re-chunker A
IsStartAt(n, i) == ParsedSent[n].type = "content_block_start" /\ ParsedSent[n].index = i
IsStopAt(n, i) == ParsedSent[n].type = "content_block_stop" /\ ParsedSent[n].index = i

\* Line n closes a tool_use block: it is the first stop for its index since the
\* latest start of that index, and that start opened a tool_use block.
ClosesToolUse(n) ==
    \E i \in BlockIndex :
       /\ IsStopAt(n, i)
       /\ \E m \in 1..(n - 1) :
             /\ IsStartAt(m, i)
             /\ ParsedSent[m].content_block.type = "tool_use"
             /\ \A k \in (m + 1)..(n - 1) : ~IsStartAt(k, i) /\ ~IsStopAt(k, i)

\* C35 (as claimed): the counter of re-chunker A is the number of tool_use
\* blocks that have closed; a repeated stop for a block does not count again.
C35_CounterCountsClosedBlocks ==
    vendor = "A" =>
        currentToolCallIndex = Cardinality({n \in 1..Len(sent) : ClosesToolUse(n)})

\* ---- the order of the input items of a structured Vendor B request
MessageTag(role) == [type |-> "message", role |-> role, call_id |-> Undefined]
CallTag(type, id) == [type |-> type, role |-> "", call_id |-> id]

ItemTag(item) ==
    IF item.type = "message" THEN MessageTag(item.role) ELSE CallTag(item.type, item.call_id)

\* The items one conversation message is due, in order.
ItemsDue(msg) ==
    CASE msg.role = "user" -> <<MessageTag("user")>>
      [] msg.role = "assistant" ->
            (IF Truthy(msg.content) THEN <<MessageTag("assistant")>> ELSE <<>>)
            \o (IF IsArray(msg.tool_calls)
                THEN [k \in 1..Len(msg.tool_calls.items) |->
                         CallTag("function_call", msg.tool_calls.items[k].id)]
                ELSE <<>>)
      [] msg.role \in {"tool", "function"} ->
            <<CallTag("function_call_output", msg.tool_call_id)>>
      [] OTHER -> <<>>

\* A conversation of user texts, assistant turns and call results.
PlainConversation(body) ==
    /\ IsArray(body.messages)
    /\ \A k \in 1..Len(body.messages.items) :
          LET msg == body.messages.items[k] IN
          /\ msg.role \in {"user", "assistant", "tool", "function"}
          /\ msg.role = "user" => IsString(msg.content) /\ Truthy(msg.content)

\* C36 (as claimed): the input items of a structured Vendor B request follow
\* the conversation: an assistant message with text and tool calls gives its
\* message item first and then one function_call item per call, in order, and
\* each tool or function message gives one function_call_output item at its place.
C36_ItemsInConversationOrder ==
    (ReturnedRequestB /\ PlainConversation(req.body)) =>
        [k \in 1..Len(transformed.result.value.input) |->
            ItemTag(transformed.result.value.input[k])]
        = Concat([k \in 1..Len(req.body.messages.items) |-> ItemsDue(req.body.messages.items[k])])

\* C37 (as claimed): every message of a request that transformRequestForClaude
\* returns has the role user or assistant, whichever shape the caller's
\* request had.
C37_RolesUserOrAssistant ==
    ReturnedBy("transformRequestForClaude") =>
        \A k \in 1..Len(transformed.result.value.messages) :
           transformed.result.value.messages[k].role \in {"user", "assistant"}

\* ---- the terminator of a streamed response
DonePositions == {k \in 1..Len(written) : written[k] = DoneMarker}
TerminalPositions == {k \in 1..Len(written) : written[k].kind = "empty"}

\* C38 (as claimed): the [DONE] marker is written at most once, the chunk with
\* a finish_reason at most once, and nothing is written after the marker,
\* whatever the upstream sends.
C38_OneTerminator ==
    /\ Cardinality(DonePositions) <= 1
    /\ Cardinality(TerminalPositions) <= 1
    /\ \A k \in DonePositions : k = Len(written)

\* C39 (as claimed): once the upstream has ended normally the response is
\* ended and the caller has received a chunk with a finish_reason followed by
\* the [DONE] marker, also when the upstream ends without a completion event.
C39_EndedWithTerminator ==
    upstream = "ended" =>
        /\ resEnded
        /\ Len(written) >= 2
        /\ written[Len(written)] = DoneMarker
        /\ written[Len(written) - 1].kind = "empty"

\* C40: with no shared secret configured, every POST to a protected path is
\* answered 500 configuration_error whatever its Authorization header: it gets
\* past the guard to no handler, no transcoder runs and no upstream call is made.
C40_GuardFailsClosed ==
    (ProtectedPost /\ ~SecretConfigured) =>
        /\ ~PastAuth
        /\ transformed = NotRun
        /\ upstreamCalls = <<>>
        /\ pc = "done" => resJson = [status |-> 500, type |-> "configuration_error"]

\* A POST to /v1/messages carrying a well-formed bearer header was turned away
\* with 500 by a proxy that has no secret.
C40_Witness ==
    /\ req.method = "POST"
    /\ req.path = "/v1/messages"
    /\ ~Truthy(CONFIG.SERVICE_API_KEY)
    /\ req.authorization = Str(<<BearerPrefix>> \o Secret)
    /\ pc = "done"
    /\ resJson = [status |-> 500, type |-> "configuration_error"]
    /\ upstreamCalls = <<>>

====
